---------------------------- MODULE Spec2Model ----------------------------
(***************************************************************************)
(* A model of the resilient fetch pipeline of web_farm:                    *)
(*   - storage_sqlite.DualSqliteStore (raw log, unique view, run_state),   *)
(*   - runtime.paginate_items driven by tool_pipeline.cmd_run_sqlite,      *)
(*   - http_engine.TokenBucket / SlidingWindow admission control,          *)
(*   - http_engine.HttpEngine.request (attempt loop, fallback, retry).     *)
(* Each subsystem has its own specification over the shared variables.     *)
(***************************************************************************)
EXTENDS Integers, Sequences, FiniteSets, TLC

VARIABLES
    \* ---- SQLite file and the connection of the running process
    durable,      \* committed content of the .db file
    conn,         \* what the open connection sees (committed + open transaction)
    wall,         \* wall clock read by _now_iso() for run_state.updated_at
    uuids,        \* number of uuid4 run ids handed out so far
    \* ---- cmd_run_sqlite process and the paginate_items generator it drives
    cfg,          \* profile + command line of the run
    pc,           \* position of the process
    run_id, resumed, start_state,
    seq_counter, items_seen,
    loc,          \* generator locals: url, page, offset, cursor, next_url
    batch_idx,
    batch,        \* the current batch: request, items, yield index, response links
    faults, restarts,
    events,       \* history: events of the current stream, in order
    cpNext,       \* history: per run_id, the request that the writer of the durable checkpoint
                  \* goes on with, and whether a block callback wrote it
    firstReq,     \* history: first request of the current stream
    refetched,    \* history: batches fetched by this stream that were already stored
    lostRows,     \* history: raw rows of the open transaction lost by the last kill
    \* ---- free-standing store operations (SpecStore)
    sops, lastSaved, lastLoad, prevSave,
    \* ---- TokenBucket (SpecBucket)
    tb, tbNow, tbWake, tbSent, tbHist,
    \* ---- SlidingWindow (SpecWindow)
    sw, swNow, swWake, swAdmit,
    \* ---- HttpEngine.request (SpecRequest)
    rq,
    \* ---- a pure function under examination: its arguments and what it returned
    fn,
    \* ---- MinDelayWrapper and the threads that call it (SpecMinDelay)
    mdw,
    \* ---- HttpEngine._limiters and the threads in _get_limiter (SpecLimiters)
    lims,
    \* ---- the cache directory and the replayed calls (SpecReplay)
    cache

storeVars  == <<durable, conn, wall, uuids>>
runVars    == <<cfg, pc, run_id, resumed, start_state, seq_counter, items_seen,
                loc, batch_idx, batch, faults, restarts, events, cpNext,
                firstReq, refetched, lostRows>>
sopVars    == <<sops, lastSaved, lastLoad, prevSave>>
bucketVars == <<tb, tbNow, tbWake, tbSent, tbHist>>
windowVars == <<sw, swNow, swWake, swAdmit>>
reqVars    == <<rq>>
fnVars     == <<fn>>
engVars    == <<mdw, lims, cache>>
vars == <<storeVars, runVars, sopVars, bucketVars, windowVars, reqVars, fnVars, engVars>>

Min(a, b) == IF a <= b THEN a ELSE b
Max(a, b) == IF a >= b THEN a ELSE b

(***************************************************************************)
(* Python values that travel through checkpoints: None, int, str.  A str   *)
(* is an opaque token, named by a number.                                  *)
(***************************************************************************)
PyNone   == <<"none", 0>>
PyInt(n) == <<"int", n>>
PyStr(s) == <<"str", s>>
Absent   == <<"absent", 0>>      \* a key that is not in a dict of parameters

IsStr(v) == v[1] = "str"

\* Optional[dict]: <<>> is None, <<d>> is the dict d
NoDict  == <<>>
Some(d) == <<d>>

\* dict.get(key): None for a missing key
Get(d, key) == IF key \in DOMAIN d THEN d[key] ELSE PyNone

(***************************************************************************)
(* json.dumps / json.loads on a dict of None/int/str values: the text is   *)
(* the JSON literal of every key.                                          *)
(***************************************************************************)
JsonLiteral(v) ==
    IF v[1] = "none" THEN <<"null", 0>>
    ELSE IF v[1] = "int" THEN <<"number", v[2]>>
    ELSE <<"string", v[2]>>

JsonValue(t) ==
    IF t[1] = "null" THEN PyNone
    ELSE IF t[1] = "number" THEN PyInt(t[2])
    ELSE PyStr(t[2])

json_dumps(d) == [k \in DOMAIN d |-> JsonLiteral(d[k])]
json_loads(text) == [k \in DOMAIN text |-> JsonValue(text[k])]

(***************************************************************************)
(* keying.py: the id of an item and its deduplication key.  An item is     *)
(* [id, val]: id is None, "" (PyStr(0)) or a value; val is the rest of     *)
(* the payload.                                                            *)
(***************************************************************************)
EmptyStr == PyStr(0)

extract_item_id(item) ==
    IF item.id = PyNone \/ item.id = EmptyStr THEN PyNone
    ELSE PyStr(item.id[2])          \* str(val)

make_item_key(item) ==
    LET id == extract_item_id(item)
    IN  IF id # PyNone THEN <<"id", id[2], 0>>
        ELSE <<"sha1", IF item.id = PyNone THEN 0 ELSE 1, item.val>>
             \* sha1 of the canonical JSON: a function of the whole item

(***************************************************************************)
(* storage_sqlite.py.  A database is [raw, unique, run_state, blocked],    *)
(* each table a sequence of rows in insertion order.  The operators act    *)
(* on the connection's view; a store is [durable, conn] and commit()       *)
(* makes the view durable.                                                 *)
(***************************************************************************)
EmptyDb == [raw |-> <<>>, unique |-> <<>>, run_state |-> <<>>, blocked |-> <<>>]

Count(table, P(_)) == Cardinality({i \in DOMAIN table : P(table[i])})

insert_raw(db, rid, seq, item_key, item_id, payload) ==
    [db EXCEPT !.raw = Append(@, [run_id |-> rid, seq |-> seq, item_key |-> item_key,
                                  item_id |-> item_id, payload |-> payload])]

\* an UPDATE that writes the incoming id as it is
Coalesce_overwrite(new, old) == new

\* COALESCE(?, item_id)
Coalesce(new, old) == IF new # PyNone THEN new ELSE old

\* an upsert whose UPDATE leaves seen_count as it was
upsert_unique_no_count(db, item_key, item_id, payload) ==
    IF \A i \in DOMAIN db.unique : db.unique[i].item_key # item_key
    THEN [db EXCEPT !.unique = Append(@, [item_key |-> item_key, item_id |-> item_id,
                                          payload |-> payload, seen_count |-> 1])]
    ELSE [db EXCEPT !.unique =
            [i \in DOMAIN @ |->
                IF @[i].item_key = item_key
                THEN [@[i] EXCEPT !.payload = payload, !.item_id = Coalesce(item_id, @)]
                ELSE @[i]]]

\* INSERT; on sqlite3.IntegrityError (the primary key item_key exists) UPDATE
upsert_unique(db, item_key, item_id, payload) ==
    IF \A i \in DOMAIN db.unique : db.unique[i].item_key # item_key
    THEN [db EXCEPT !.unique = Append(@, [item_key |-> item_key, item_id |-> item_id,
                                          payload |-> payload, seen_count |-> 1])]
    ELSE [db EXCEPT !.unique =
            [i \in DOMAIN @ |->
                IF @[i].item_key = item_key
                THEN [@[i] EXCEPT !.seen_count = @ + 1,
                                  !.payload = payload,
                                  !.item_id = Coalesce(item_id, @)]
                ELSE @[i]]]

\* a put that skips the raw log
put_both_unique_only(db, item, rid, seq) ==
    upsert_unique(db, make_item_key(item), extract_item_id(item), item)

put_both(db, item, rid, seq) ==
    LET item_id  == extract_item_id(item)
        item_key == make_item_key(item)
    IN  upsert_unique(insert_raw(db, rid, seq, item_key, item_id, item),
                      item_key, item_id, item)

\* INSERT INTO run_state ... ON CONFLICT(profile, run_id) DO UPDATE SET ...
upsert_run_state(db, profile, rid, state, bidx, last_seq, seen, now) ==
    LET row == [profile |-> profile, run_id |-> rid, state_json |-> json_dumps(state),
                updated_at |-> now, batch_idx |-> bidx, last_seq |-> last_seq,
                items_seen |-> seen]
    IN  IF \A i \in DOMAIN db.run_state :
              ~(db.run_state[i].profile = profile /\ db.run_state[i].run_id = rid)
        THEN [db EXCEPT !.run_state = Append(@, row)]
        ELSE [db EXCEPT !.run_state =
                [i \in DOMAIN @ |->
                    IF @[i].profile = profile /\ @[i].run_id = rid THEN row ELSE @[i]]]

commit(store) == [durable |-> store.conn, conn |-> store.conn]

\* a checkpoint row written and committed on its own, the open transaction left open
save_state_own_commit(store, profile, rid, state, bidx, last_seq, seen, now) ==
    [durable |-> upsert_run_state(store.durable, profile, rid, state, bidx, last_seq, seen, now),
     conn    |-> upsert_run_state(store.conn, profile, rid, state, bidx, last_seq, seen, now)]

\* a checkpoint row left in the open transaction
save_state_no_commit(store, profile, rid, state, bidx, last_seq, seen, now) ==
    [store EXCEPT !.conn = upsert_run_state(@, profile, rid, state, bidx, last_seq, seen, now)]

\* an upsert that always inserts
save_state_insert_only(store, profile, rid, state, bidx, last_seq, seen, now) ==
    commit([store EXCEPT !.conn.run_state =
              Append(@, [profile |-> profile, run_id |-> rid, state_json |-> json_dumps(state),
                         updated_at |-> now, batch_idx |-> bidx, last_seq |-> last_seq,
                         items_seen |-> seen])])

save_state(store, profile, rid, state, bidx, last_seq, seen, now) ==
    commit([store EXCEPT !.conn =
              upsert_run_state(@, profile, rid, state, bidx, last_seq, seen, now)])

\* SELECT state_json ... WHERE profile=? AND run_id=?  -> json.loads or None
load_state(db, profile, rid) ==
    LET hits == {i \in DOMAIN db.run_state :
                    db.run_state[i].profile = profile /\ db.run_state[i].run_id = rid}
    IN  IF hits = {} THEN NoDict
        ELSE Some(json_loads(db.run_state[CHOOSE i \in hits : \A j \in hits : i <= j].state_json))

\* SELECT run_id ... WHERE profile=? ORDER BY updated_at DESC LIMIT 1  (0: None)
latest_run_id(db, profile) ==
    LET mine == {i \in DOMAIN db.run_state : db.run_state[i].profile = profile}
    IN  IF mine = {} THEN 0
        ELSE db.run_state[CHOOSE i \in mine :
                \A j \in mine : db.run_state[j].updated_at <= db.run_state[i].updated_at].run_id

(***************************************************************************)
(* The profile of a run and the paginated endpoint it reads.               *)
(***************************************************************************)
Limit      == 2      \* profile.pagination.limit; the endpoint serves pages of this size
MaxBatches == 3      \* profile.pagination.max_batches
MaxTotal   == 5      \* the endpoint's dataset holds 0..MaxTotal records
MaxItemsArg == 3     \* args.max_items, when given
MaxRuns    == 2      \* processes started in one behaviour
MaxFaults  == 1      \* requests of one behaviour that end without a usable page
StartFrom  == 1      \* PaginationSpec.start_from
Step       == 0      \* PaginationSpec.step (0: use limit)

Kinds == {"page", "offset", "cursor_token", "next_url", "unknown"}
KindCode(kind) ==
    CASE kind = "page" -> 11 [] kind = "offset" -> 12 [] kind = "cursor_token" -> 13
      [] kind = "next_url" -> 14 [] OTHER -> 15

ProfileName == 1
ProfileUrl  == PyStr(1)               \* profile.url
UrlAt(o)    == PyStr(1 + o)           \* the URL of the page that starts at record o
CursorAt(o) == PyStr(o)               \* the cursor of the page that starts at record o

ItemAt(j) == [id |-> PyInt(j), val |-> 0]

\* the record offset a request asks for
ServerPos(req) ==
    IF req.page # Absent THEN (req.page[2] - StartFrom) * Limit
    ELSE IF req.offset # Absent THEN req.offset[2]
    ELSE IF req.cursor # Absent THEN req.cursor[2]
    ELSE req.url[2] - 1

\* the page served for a request: its items, and the cursor / link of the next page
ServerPage(req, total) ==
    LET pos == ServerPos(req)
        n   == Min(Limit, Max(0, total - pos))
        more == pos + Limit < total
    IN  [items       |-> [j \in 1..n |-> ItemAt(pos + j)],
         next_cursor |-> IF more THEN CursorAt(pos + Limit) ELSE PyNone,
         next_link   |-> IF more THEN UrlAt(pos + Limit) ELSE PyNone]

\* the page served by the endpoint of configuration c: a stalling endpoint
\* answers every request past the first page with the cursor of that request
ServerPageOf(c, req) ==
    LET page == ServerPage(req, c.total)
    IN  IF c.stall /\ req.cursor # Absent /\ Len(page.items) > 0
        THEN [page EXCEPT !.next_cursor = req.cursor]
        ELSE page

(***************************************************************************)
(* block_detect.classify_block.  A response is its status code, whether it *)
(* carries a cf-ray header, and the set of marker phrases in its body (one *)
(* phrase standing for each group the classifier looks for).               *)
(***************************************************************************)
BlockStatuses == {200, 401, 403, 404, 429, 500, 503}
TextMarkers == {"__cf_bm", "just a moment", "captcha", "too many requests", "log in", "forbidden"}

ClassifyResponses ==
    [status_code : BlockStatuses, cf_ray : BOOLEAN, text : SUBSET TextMarkers]

\* lines 46-115: <<>> is None, <<d>> the block event
classify_block(resp) ==
    LET sc == resp.status_code
        is_cf      == resp.cf_ray \/ "__cf_bm" \in resp.text
        is_js      == "just a moment" \in resp.text
        is_captcha == "captcha" \in resp.text
        is_rate    == sc = 429 \/ "too many requests" \in resp.text
        is_auth    == sc = 401 \/ "log in" \in resp.text
        is_denied  == sc = 403 \/ "forbidden" \in resp.text
        hint0 == IF is_cf
                 THEN (IF is_captcha THEN "captcha"
                       ELSE IF is_js THEN "js_challenge" ELSE "cloudflare")
                 ELSE IF is_captcha THEN "captcha"
                 ELSE IF is_js THEN "js_challenge"
                 ELSE IF is_rate THEN "rate_limited"
                 ELSE IF is_auth THEN "auth_required"
                 ELSE IF is_denied THEN "access_denied"
                 ELSE "none"
        hint  == IF hint0 = "none" /\ sc = 200 /\ (is_cf \/ is_js \/ is_captcha)
                 THEN "blocked" ELSE hint0
    IN  IF hint = "none" THEN <<>>
        ELSE <<[hint |-> hint, status_code |-> sc, cf_ray |-> resp.cf_ray]>>

(***************************************************************************)
(* runtime.paginate_items                                                  *)
(***************************************************************************)
\* a stream that starts from the profile's defaults whatever state it is given
RestoreLocals_from_scratch(state) ==
    [url |-> ProfileUrl, page |-> StartFrom, offset |-> 0, cursor |-> PyNone,
     next_url |-> PyNone]

\* lines 61-72: the locals of a stream started from `state` (None or a dict)
RestoreLocals(state) ==
    LET st == IF state = NoDict THEN <<>> ELSE state[1]      \* dict(state or {})
        u  == Get(st, "url")
    IN  [url      |-> IF u = PyNone \/ u = EmptyStr THEN ProfileUrl ELSE u,
         page     |-> IF Get(st, "page") # PyNone THEN Get(st, "page")[2] ELSE StartFrom,
         offset   |-> IF Get(st, "offset") # PyNone THEN Get(st, "offset")[2] ELSE 0,
         cursor   |-> IF IsStr(Get(st, "cursor")) THEN Get(st, "cursor") ELSE PyNone,
         next_url |-> IF IsStr(Get(st, "next_url")) THEN Get(st, "next_url") ELSE PyNone]

\* lines 79-104: the locals after the parameters are built (next_url moves url)
LocalsAtRequest(kind, l) ==
    IF kind = "next_url" /\ l.next_url # PyNone THEN [l EXCEPT !.url = l.next_url] ELSE l

\* lines 79-114: the request of one batch
BuildRequest(kind, limit_param, l) ==
    LET lim == IF limit_param /\ kind \in {"page", "offset", "cursor_token"}
               THEN PyInt(Limit) ELSE Absent
    IN  [url    |-> LocalsAtRequest(kind, l).url,
         page   |-> IF kind = "page" THEN PyInt(l.page) ELSE Absent,
         offset |-> IF kind = "offset" THEN PyInt(l.offset) ELSE Absent,
         cursor |-> IF kind = "cursor_token" /\ l.cursor # PyNone THEN l.cursor ELSE Absent,
         limit  |-> lim]

\* lines 136-144 and 245-253: the pagination state handed to a callback
StateDict(kind, l, bidx) ==
    [kind |-> PyStr(KindCode(kind)), url |-> l.url, page |-> PyInt(l.page),
     offset |-> PyInt(l.offset), cursor |-> l.cursor, next_url |-> l.next_url,
     batch_idx |-> PyInt(bidx)]

\* an advance that leaves the state where it was
advance_stay(kind, limit_param, l, page, n) == [ok |-> kind # "unknown", loc |-> l]

\* an advance that takes whatever cursor the page carries
advance_ignore_stall(kind, limit_param, l, page, n) ==
    IF kind = "cursor_token" /\ page.next_cursor # PyNone
    THEN [ok |-> TRUE, loc |-> [l EXCEPT !.cursor = page.next_cursor]]
    ELSE advance_stay(kind, limit_param, l, page, n)

\* an advance that never ends the stream
advance_goes_on(kind, limit_param, l, page, n) == [ok |-> TRUE, loc |-> l]

\* lines 208-240: the state after a batch of n items; ok FALSE: the stream returns
advance(kind, limit_param, l, page, n) ==
    CASE kind = "page" -> [ok |-> TRUE, loc |-> [l EXCEPT !.page = @ + 1]]
      [] kind = "offset" ->
            LET step == IF Step # 0 THEN Step ELSE IF limit_param THEN Limit ELSE n
            IN  [ok |-> TRUE, loc |-> [l EXCEPT !.offset = @ + step]]
      [] kind = "cursor_token" ->
            IF page.next_cursor = PyNone \/ page.next_cursor = l.cursor
            THEN [ok |-> FALSE, loc |-> l]
            ELSE [ok |-> TRUE, loc |-> [l EXCEPT !.cursor = page.next_cursor]]
      [] kind = "next_url" ->
            IF page.next_link = PyNone
            THEN [ok |-> FALSE, loc |-> l]
            ELSE [ok |-> TRUE, loc |-> [l EXCEPT !.next_url = page.next_link,
                                                 !.url = page.next_link]]
      [] OTHER -> [ok |-> FALSE, loc |-> l]

\* the record offset a pagination state stands at
LocPos(kind, l) == ServerPos(BuildRequest(kind, FALSE, l))
StatePos(kind, state) == LocPos(kind, RestoreLocals(Some(state)))

Event(e, b, i, l) == [e |-> e, b |-> b, i |-> i, st |-> l]
NoBatch == [req |-> BuildRequest("unknown", FALSE, RestoreLocals(NoDict)),
            page |-> ServerPage(BuildRequest("unknown", FALSE, RestoreLocals(NoDict)), 0),
            i |-> 0]

(***************************************************************************)
(* tool_pipeline.cmd_run_sqlite: one process per Start, driving one        *)
(* paginate_items stream into the store.                                   *)
(***************************************************************************)
Store == [durable |-> durable, conn |-> conn]

IdleSops == sops = <<>> /\ lastSaved = <<>> /\ lastLoad = <<>> /\ prevSave = <<>>
IdleBucket == tb = <<>> /\ tbNow = 0 /\ tbWake = <<>> /\ tbSent = <<>> /\ tbHist = <<>>
IdleWindow == sw = <<>> /\ swNow = 0 /\ swWake = <<>> /\ swAdmit = <<>>
IdleReq == rq = <<>>
IdleFn == fn = <<>>
IdleEng == mdw = <<>> /\ lims = <<>> /\ cache = <<>>

IdleRun ==
    /\ cfg = <<>> /\ pc = "off" /\ run_id = 0 /\ resumed = FALSE /\ start_state = NoDict
    /\ seq_counter = 0 /\ items_seen = 0 /\ loc = RestoreLocals(NoDict) /\ batch_idx = 0
    /\ batch = NoBatch /\ faults = 0 /\ restarts = 0 /\ events = <<>> /\ cpNext = <<>>
    /\ firstReq = [expect |-> <<>>, got |-> <<>>, block |-> FALSE] /\ refetched = 0 /\ lostRows = 0

Init ==
    /\ durable = EmptyDb /\ conn = EmptyDb /\ wall = 0 /\ uuids = 0
    /\ cfg \in {c \in [kind : Kinds, limit_param : BOOLEAN, total : 0..MaxTotal,
                         max_items : {0, MaxItemsArg}, stall : BOOLEAN,
                         mode : {"json"}] :
                    c.stall => c.kind = "cursor_token"}
    /\ pc = "idle" /\ run_id = 0 /\ resumed = FALSE /\ start_state = NoDict
    /\ seq_counter = 0 /\ items_seen = 0 /\ loc = RestoreLocals(NoDict) /\ batch_idx = 0
    /\ batch = NoBatch /\ faults = 0 /\ restarts = 0 /\ events = <<>> /\ cpNext = <<>>
    /\ firstReq = [expect |-> <<>>, got |-> <<>>, block |-> FALSE] /\ refetched = 0 /\ lostRows = 0
    /\ IdleSops /\ IdleBucket /\ IdleWindow /\ IdleReq /\ IdleFn /\ IdleEng

\* lines 1001-1029 and runtime 47-76: open the store, pick the run, load its state
Start ==
    /\ pc \in {"idle", "exited", "dead"}
    /\ restarts < MaxRuns
    /\ \E resume \in BOOLEAN :
        LET latest == IF resume THEN latest_run_id(conn, ProfileName) ELSE 0
            fresh  == latest = 0
            rid    == IF fresh THEN uuids + 1 ELSE latest
            state  == IF resume THEN load_state(conn, ProfileName, rid) ELSE NoDict
        IN  /\ run_id' = rid
            /\ uuids' = IF fresh THEN uuids + 1 ELSE uuids
            /\ cpNext' = IF fresh THEN Append(cpNext, [req |-> <<>>, block |-> FALSE]) ELSE cpNext
            /\ resumed' = resume
            /\ start_state' = state
            /\ loc' = RestoreLocals(state)
            /\ firstReq' = [expect |-> IF fresh THEN <<>> ELSE cpNext[rid].req, got |-> <<>>,
                            block |-> ~fresh /\ cpNext[rid].block]
    /\ restarts' = restarts + 1
    /\ seq_counter' = 0 /\ items_seen' = 0 /\ batch_idx' = 0
    /\ batch' = NoBatch /\ events' = <<>> /\ refetched' = 0 /\ lostRows' = 0
    /\ pc' = IF MaxBatches > 0 THEN "request" ELSE "closing"
    /\ UNCHANGED <<durable, conn, wall, cfg, faults>>
    /\ UNCHANGED <<sopVars, bucketVars, windowVars, reqVars, fnVars, engVars>>

AlreadyStored(db, rid, items) ==
    /\ Len(items) > 0
    /\ \A j \in DOMAIN items :
         \E i \in DOMAIN db.raw :
            db.raw[i].run_id = rid /\ db.raw[i].item_key = make_item_key(items[j])

\* responses of a failure status that the engine can hand to the stream
FailureResponses ==
    {[status_code |-> 403, cf_ray |-> TRUE,  text |-> {}],
     [status_code |-> 429, cf_ray |-> FALSE, text |-> {}],
     [status_code |-> 404, cf_ray |-> FALSE, text |-> {}],
     [status_code |-> 500, cf_ray |-> FALSE, text |-> {"forbidden"}]}

\* a block event that carries the state after the batch
BlockState_advanced(kind, l, bidx) ==
    StateDict(kind, [l EXCEPT !.page = @ + 1, !.offset = @ + Limit,
                              !.cursor = CursorAt(Limit), !.next_url = UrlAt(Limit)], bidx)

\* runtime 136-144, 167-175: the pagination_state of a block event
BlockState(kind, l, bidx) == StateDict(kind, l, bidx)

\* a stream that asks again after a failure
AfterRequest_retry(outcome, n) ==
    IF outcome = "page" THEN (IF n = 0 THEN "closing" ELSE "yield") ELSE "request"

\* runtime 115-199: where the stream goes after the engine's answer
AfterRequest(outcome, n) ==
    IF outcome = "page" /\ n > 0 THEN "yield" ELSE "closing"

\* runtime 78-199: build the request, call the engine, stop on no response, on a
\* failure (after on_block for a classified block) or on an empty page
RtRequest ==
    /\ pc = "request"
    /\ LET l    == LocalsAtRequest(cfg.kind, loc)
           req  == BuildRequest(cfg.kind, cfg.limit_param, loc)
           page == ServerPageOf(cfg, req)
           asked == Append(events, Event("request", batch_idx, Len(page.items), l))
       IN
       /\ loc' = l
       /\ firstReq' = IF firstReq.got = <<>> THEN [firstReq EXCEPT !.got = <<req>>] ELSE firstReq
       /\ \/ \* the page arrives
             /\ batch' = [req |-> req, page |-> page, i |-> 1]
             /\ pc' = AfterRequest("page", Len(page.items))
             /\ events' = asked
             /\ refetched' = IF AlreadyStored(conn, run_id, page.items)
                             THEN refetched + 1 ELSE refetched
             /\ UNCHANGED <<durable, conn, wall, faults, cpNext>>
          \/ \* resp is None
             /\ faults < MaxFaults
             /\ faults' = faults + 1
             /\ pc' = AfterRequest("no_response", 0)
             /\ events' = Append(asked, [e |-> "failed", b |-> batch_idx, i |-> 0, st |-> l,
                                         outcome |-> "no_response"])
             /\ UNCHANGED <<durable, conn, wall, batch, refetched, cpNext>>
          \/ \* a failure status
             /\ faults < MaxFaults
             /\ faults' = faults + 1
             /\ pc' = AfterRequest("status", 0)
             /\ \E resp \in FailureResponses :
                  LET info == classify_block(resp)
                      st   == BlockState(cfg.kind, l, batch_idx)
                      bi   == IF st.batch_idx = PyNone THEN 0 ELSE st.batch_idx[2]
                      s    == save_state(Store, ProfileName, run_id, st, bi, seq_counter,
                                         items_seen, wall + 1)
                  IN  IF info = <<>>
                      THEN \* classify_block returns None: no callback
                           /\ events' = Append(asked, [e |-> "failed", b |-> batch_idx, i |-> 0,
                                                       st |-> l, outcome |-> "status"])
                           /\ UNCHANGED <<durable, conn, wall, cpNext>>
                      ELSE \* on_block_cb saves the state of the blocked request; then
                           \* db.add_blocked_event is not an attribute of the store (the
                           \* functions after storage_sqlite.py:297 are module-level) and
                           \* the AttributeError is swallowed (tool_pipeline.py:1086,
                           \* runtime.py:146)
                           /\ durable' = s.durable /\ conn' = s.conn
                           /\ wall' = wall + 1
                           /\ cpNext' = [cpNext EXCEPT ![run_id] = [req |-> <<req>>, block |-> TRUE]]
                           /\ events' = Append(asked,
                                  [e |-> "block", b |-> batch_idx, i |-> 0,
                                   st |-> RestoreLocals(Some(st)), resp |-> resp,
                                   hint |-> info[1].hint])
             /\ UNCHANGED <<batch, refetched>>
    /\ UNCHANGED <<uuids, cfg, run_id, resumed, start_state, seq_counter, items_seen,
                   batch_idx, restarts, lostRows>>
    /\ UNCHANGED <<sopVars, bucketVars, windowVars, reqVars, fnVars, engVars>>

\* runtime 201-206: the generator hands the next item of the batch to its consumer
RtYield ==
    /\ pc = "yield"
    /\ events' = Append(events, Event("yield", batch_idx, batch.i, loc))
    /\ pc' = "put"
    /\ UNCHANGED <<storeVars, cfg, run_id, resumed, start_state, seq_counter, items_seen,
                   loc, batch_idx, batch, faults, restarts, cpNext, firstReq, refetched, lostRows>>
    /\ UNCHANGED <<sopVars, bucketVars, windowVars, reqVars, fnVars, engVars>>

\* tool_pipeline 1096-1107: the body of the consumer's loop for one item
ConsumerPut ==
    /\ pc = "put"
    /\ seq_counter' = seq_counter + 1
    /\ conn' = put_both(conn, batch.page.items[batch.i], run_id, seq_counter + 1)
    /\ items_seen' = items_seen + 1
    /\ IF cfg.max_items # 0 /\ items_seen + 1 >= cfg.max_items
       THEN pc' = "closing" /\ batch' = batch
       ELSE IF batch.i < Len(batch.page.items)
            THEN pc' = "yield" /\ batch' = [batch EXCEPT !.i = @ + 1]
            ELSE pc' = "advance" /\ batch' = batch
    /\ UNCHANGED <<durable, wall, uuids, cfg, run_id, resumed, start_state, loc, batch_idx,
                   faults, restarts, events, cpNext, firstReq, refetched, lostRows>>
    /\ UNCHANGED <<sopVars, bucketVars, windowVars, reqVars, fnVars, engVars>>

\* runtime 208-240: advance the pagination state, or return
RtAdvance ==
    /\ pc = "advance"
    /\ LET a == advance(cfg.kind, cfg.limit_param, loc, batch.page, Len(batch.page.items))
       IN  /\ loc' = a.loc
           /\ pc' = IF a.ok THEN "checkpoint" ELSE "closing"
           /\ events' = IF a.ok THEN Append(events, Event("advance", batch_idx, 0, a.loc))
                        ELSE events
    /\ UNCHANGED <<storeVars, cfg, run_id, resumed, start_state, seq_counter, items_seen,
                   batch_idx, batch, faults, restarts, cpNext, firstReq, refetched, lostRows>>
    /\ UNCHANGED <<sopVars, bucketVars, windowVars, reqVars, fnVars, engVars>>

\* a stop rule that also stops after a full page
StopAfterBatch_on_full(limit_param, n) == limit_param /\ Limit > 0 /\ n <= Limit

\* a stream without the short-batch stop rule
StopAfterBatch_never(limit_param, n) == FALSE

\* runtime 259-260: fewer records than the limit end the stream
StopAfterBatch(limit_param, n) == limit_param /\ Limit > 0 /\ n < Limit

\* runtime 242-260 with tool_pipeline 1031-1044: the checkpoint callback saves the
\* state, then the stop rules decide whether another batch follows
RtCheckpoint ==
    /\ pc = "checkpoint"
    /\ LET st == StateDict(cfg.kind, loc, batch_idx)
           bi == IF st.batch_idx = PyNone THEN 0 ELSE st.batch_idx[2]
           s  == save_state(Store, ProfileName, run_id, st, bi, seq_counter, items_seen,
                            wall + 1)
       IN  /\ durable' = s.durable /\ conn' = s.conn
           /\ events' = Append(events, Event("checkpoint", batch_idx, 0, RestoreLocals(Some(st))))
    /\ wall' = wall + 1
    /\ cpNext' = [cpNext EXCEPT ![run_id] =
                     [req |-> <<BuildRequest(cfg.kind, cfg.limit_param, loc)>>, block |-> FALSE]]
    /\ IF StopAfterBatch(cfg.limit_param, Len(batch.page.items))
       THEN pc' = "closing" /\ batch_idx' = batch_idx
       ELSE /\ batch_idx' = batch_idx + 1
            /\ pc' = IF batch_idx + 1 < MaxBatches THEN "request" ELSE "closing"
    /\ UNCHANGED <<uuids, cfg, run_id, resumed, start_state, seq_counter, items_seen, loc,
                   batch, faults, restarts, firstReq, refetched, lostRows>>
    /\ UNCHANGED <<sopVars, bucketVars, windowVars, reqVars, fnVars, engVars>>

\* the locals of a process that is gone
Gone ==
    /\ run_id' = 0 /\ resumed' = FALSE /\ start_state' = NoDict
    /\ seq_counter' = 0 /\ items_seen' = 0 /\ loc' = RestoreLocals(NoDict)
    /\ batch_idx' = 0 /\ batch' = NoBatch /\ events' = <<>>
    /\ firstReq' = [expect |-> <<>>, got |-> <<>>, block |-> FALSE] /\ refetched' = 0

\* tool_pipeline 1109-1128 and storage_sqlite 73-83: the with block closes the
\* store (commit), the process prints its report and exits
Finish ==
    /\ pc = "closing"
    /\ durable' = conn
    /\ pc' = "exited"
    /\ Gone
    /\ UNCHANGED <<conn, wall, uuids, cfg, faults, restarts, cpNext, lostRows>>
    /\ UNCHANGED <<sopVars, bucketVars, windowVars, reqVars, fnVars, engVars>>

\* the process is killed: the open transaction is lost
Kill ==
    /\ pc \in {"request", "yield", "put", "advance", "checkpoint", "closing"}
    /\ conn' = durable
    /\ lostRows' = Len(conn.raw) - Len(durable.raw)
    /\ pc' = "dead"
    /\ Gone
    /\ UNCHANGED <<durable, wall, uuids, cfg, faults, restarts, cpNext>>
    /\ UNCHANGED <<sopVars, bucketVars, windowVars, reqVars, fnVars, engVars>>

Next ==
    \/ Start \/ RtRequest \/ RtYield \/ ConsumerPut \/ RtAdvance \/ RtCheckpoint
    \/ Finish \/ Kill

Spec == Init /\ [][Next]_vars

(***************************************************************************)
(* Claims on the run (Spec)                                                *)
(***************************************************************************)
Stored(db, rid, j) ==
    /\ \E i \in DOMAIN db.raw :
          db.raw[i].run_id = rid /\ db.raw[i].item_key = make_item_key(ItemAt(j))
    /\ \E i \in DOMAIN db.unique : db.unique[i].item_key = make_item_key(ItemAt(j))

\* every record before the position of a checkpoint of db is stored in db
CheckpointCovered(db) ==
    \A i \in DOMAIN db.run_state :
        LET row == db.run_state[i]
            pos == StatePos(cfg.kind, json_loads(row.state_json))
        IN  \A j \in 1..Min(pos, cfg.total) : Stored(db, row.run_id, j)

InBatch == pc \in {"yield", "put", "advance", "checkpoint"}

\* C1: whenever the process may be killed, the durable file holds no checkpoint
\* past a record that is not durably in the raw and unique tables; a stream
\* (resumed or not) never requests a page past a record it has not stored, and a
\* resumed stream fetches at most one batch whose records were all stored already.
C1_KillSafe ==
    /\ CheckpointCovered(durable)
    /\ InBatch => \A j \in 1..Min(ServerPos(batch.req), cfg.total) : Stored(conn, run_id, j)
    /\ refetched <= 1

\* C1 witness: a process was killed with uncommitted rows while the file held a
\* checkpoint past the first page: the rows are lost, the checkpoint stays.
C1_Witness ==
    /\ pc = "dead" /\ lostRows > 0
    /\ \E i \in DOMAIN durable.run_state :
          StatePos(cfg.kind, json_loads(durable.run_state[i].state_json)) > 0

\* C2: in one stream the events of batch n come in the order request n, yield of
\* each of its records, advance, checkpoint carrying the advanced state; request
\* n+1 comes only after the checkpoint of batch n.
C2_BatchOrder ==
    \A k \in DOMAIN events :
        LET ev == events[k]
            pv == events[k - 1]
        IN  CASE ev.e = "request" ->
                    IF k = 1 THEN ev.b = 0
                    ELSE pv.e = "checkpoint" /\ pv.b + 1 = ev.b
              [] ev.e = "yield" ->
                    /\ k > 1 /\ pv.b = ev.b
                    /\ IF ev.i = 1 THEN pv.e = "request" /\ pv.i >= 1
                       ELSE pv.e = "yield" /\ pv.i + 1 = ev.i
              [] ev.e = "advance" ->
                    /\ k > 1 /\ pv.e = "yield" /\ pv.b = ev.b
                    /\ \E r \in 1..(k - 1) :
                         /\ events[r].e = "request" /\ events[r].b = ev.b
                         /\ events[r].i = pv.i
                         /\ LocPos(cfg.kind, ev.st) > LocPos(cfg.kind, events[r].st)
              [] ev.e = "checkpoint" ->
                    /\ k > 1 /\ pv.e = "advance" /\ pv.b = ev.b
                    /\ ev.st = pv.st
                    /\ \E r \in 1..(k - 1) :
                         /\ events[r].e = "request" /\ events[r].b = ev.b
                         /\ LocPos(cfg.kind, ev.st) > LocPos(cfg.kind, events[r].st)
              [] OTHER -> k > 1 /\ pv.e = "request" /\ pv.b = ev.b

\* C2 witness: a second batch was requested after the checkpoint of the first
C2_Witness ==
    /\ Len(events) >= 6
    /\ events[Len(events)].e = "checkpoint" /\ events[Len(events)].b = 1

\* C3: the first request of a stream resumed from a loaded checkpoint is the
\* request the run that wrote the checkpoint went on with (or, for the checkpoint
\* of a blocked request, that request).
C3_ResumeSameRequest ==
    (resumed /\ start_state # NoDict /\ firstReq.got # <<>>)
        => firstReq.got = firstReq.expect

\* C3 witness: a cursor_token stream resumed from a checkpoint past the first page
C3_Witness ==
    /\ resumed /\ start_state # NoDict /\ firstReq.got # <<>>
    /\ cfg.kind = "cursor_token"
    /\ firstReq.got[1].cursor # Absent

LastEvent == events[Len(events)]
HaltedOnBlock == pc = "closing" /\ events # <<>> /\ LastEvent.e = "block"

C14_BlockedEventRecorded ==
    HaltedOnBlock =>
        \E i \in DOMAIN conn.blocked :
            /\ conn.blocked[i].resolved_at = PyNone
            /\ conn.blocked[i].profile = ProfileName /\ conn.blocked[i].run_id = run_id
            /\ conn.blocked[i].batch_idx = LastEvent.b
            /\ RestoreLocals(Some(conn.blocked[i].pagination_state)) = LastEvent.st

C16_NoRetry ==
    \A k \in DOMAIN events :
        /\ events[k].e = "request" =>
              \A j \in 1..(k - 1) : events[j].e = "request" => events[j].b < events[k].b
        /\ events[k].e \in {"failed", "block"} =>
              /\ k = Len(events) /\ k > 1 /\ pc = "closing"
              /\ events[k - 1].e = "request" /\ events[k - 1].b = events[k].b
        /\ events[k].e = "failed" =>
              \/ events[k].outcome = "no_response"
              \/ events[k].outcome = "status"

\* C16 witness: the second request of a stream got no response
C16_Witness ==
    /\ pc = "closing" /\ events # <<>>
    /\ LastEvent.e = "failed" /\ LastEvent.outcome = "no_response" /\ LastEvent.b = 1


EventsOf(kind) == {j \in DOMAIN events : events[j].e = kind}

\* C19: in a cursor_token stream, a request whose page carries no cursor or
\* the cursor the request was made with is followed by no advance, no
\* checkpoint and no further request.
C19_CursorStall ==
    cfg.kind = "cursor_token" =>
        \A k \in EventsOf("request") :
            LET page == ServerPageOf(cfg, BuildRequest(cfg.kind, cfg.limit_param, events[k].st))
            IN  (page.next_cursor = PyNone \/ page.next_cursor = events[k].st.cursor) =>
                    \A j \in (k + 1)..Len(events) :
                        events[j].e \notin {"advance", "checkpoint", "request"}

\* C19 witness: the endpoint answered the second request with the cursor of
\* that request; its records were yielded and the stream ended there
C19_Witness ==
    /\ cfg.stall /\ cfg.max_items = 0 /\ pc = "closing" /\ events # <<>>
    /\ LastEvent.e = "yield" /\ LastEvent.b = 1 /\ LastEvent.i = Limit
    /\ LastEvent.st.cursor = CursorAt(Limit)
    /\ Cardinality(EventsOf("checkpoint")) = 1

\* C20: an offset stream with a limit parameter, started from no state on an
\* endpoint of k full pages (k < max_batches) that answers every request, ends
\* after k+1 requests, k*limit records and k checkpoints with offsets limit,
\* 2*limit, ..., k*limit, and without a block event.
C20_OffsetScenario ==
    \A k \in 0..(MaxBatches - 1) :
        (/\ pc = "closing" /\ cfg.kind = "offset" /\ cfg.limit_param /\ cfg.max_items = 0
         /\ start_state = NoDict /\ cfg.total = k * Limit
         /\ EventsOf("failed") = {} /\ EventsOf("block") = {})
        => /\ Cardinality(EventsOf("request")) = k + 1
           /\ Cardinality(EventsOf("yield")) = k * Limit
           /\ Cardinality(EventsOf("checkpoint")) = k
           /\ \A m \in 1..k :
                 \E j \in EventsOf("checkpoint") :
                     events[j].b = m - 1 /\ events[j].st.offset = m * Limit
           /\ conn.blocked = <<>>

\* C20 witness: two full pages and an empty third one
C20_Witness ==
    /\ pc = "closing" /\ cfg.kind = "offset" /\ cfg.limit_param /\ cfg.max_items = 0
    /\ start_state = NoDict /\ cfg.total = 2 * Limit
    /\ Cardinality(EventsOf("request")) = 3 /\ Cardinality(EventsOf("yield")) = 2 * Limit
    /\ LastEvent.e = "request" /\ LastEvent.i = 0


\* C24: within one run_id the seq values of the raw-log rows are strictly
\* increasing in insertion order, also across an interruption and a resume.
C24_SeqIncreasing ==
    \A i, j \in DOMAIN conn.raw :
        (i < j /\ conn.raw[i].run_id = conn.raw[j].run_id)
            => conn.raw[i].seq < conn.raw[j].seq

\* the raw-log rows of a key, and the unique rows of a key
RawOf(db, k) == {i \in DOMAIN db.raw : db.raw[i].item_key = k}
UniqueOf(db, k) == {i \in DOMAIN db.unique : db.unique[i].item_key = k}

\* C36: in the store as the process sees it and as it is on disk, every key of
\* the raw log has exactly one unique row, whose seen_count is the number of raw
\* rows of the key, and the unique view has no other rows; so a batch fetched
\* again after a resume adds raw rows and no unique row.
C36_UniqueMatchesRaw ==
    \A db \in {conn, durable} :
        /\ \A i \in DOMAIN db.raw : Cardinality(UniqueOf(db, db.raw[i].item_key)) = 1
        /\ \A u \in DOMAIN db.unique :
              /\ db.unique[u].seen_count = Cardinality(RawOf(db, db.unique[u].item_key))
              /\ db.unique[u].seen_count > 0
        /\ Len(db.unique) = Cardinality({db.raw[i].item_key : i \in DOMAIN db.raw})

\* C36 witness: a resumed run has fetched a stored batch again and put its
\* records: more raw rows than unique rows, and a row seen twice
C36_Witness ==
    /\ resumed /\ refetched > 0 /\ pc = "advance"
    /\ Len(conn.raw) = Len(conn.unique) + Limit
    /\ Cardinality({u \in DOMAIN conn.unique : conn.unique[u].seen_count = 2}) = Limit

\* the row of run_state the current run's checkpoints overwrite
SavedRows(db) ==
    {i \in DOMAIN db.run_state :
        db.run_state[i].profile = ProfileName /\ db.run_state[i].run_id = run_id}

\* C39: the batch_idx of the successive checkpoints of one run_id is strictly
\* increasing, also across an interruption and resume: whenever the stream is
\* about to emit a checkpoint and the run's last save was a checkpoint, the
\* batch_idx it records is greater than the one saved.
C39_BatchIdxIncreasing ==
    (pc = "checkpoint" /\ ~cpNext[run_id].block) =>
        \A i \in SavedRows(conn) : batch_idx > conn.run_state[i].batch_idx

(***************************************************************************)
(* SpecStream: the run of Spec on an endpoint that may answer a request    *)
(* with any page: any number of records up to the limit, and any cursor or *)
(* next link (none, a new one, the one just used, one seen before).        *)
(***************************************************************************)
\* the pages an endpoint can answer a request with
AnyPages(kind, req) ==
    LET pos == ServerPos(req)
    IN  {[items       |-> [j \in 1..n |-> ItemAt(pos + j)],
          next_cursor |-> c,
          next_link   |-> u] :
            n \in {0, 1, Limit},             \* empty, short (when Limit > 1), full
            c \in IF kind = "cursor_token"
                  THEN {PyNone, CursorAt(pos + Limit), CursorAt(Limit)}
                          \cup (IF req.cursor # Absent THEN {req.cursor} ELSE {})
                  ELSE {PyNone},
            u \in IF kind = "next_url"
                  THEN {PyNone, UrlAt(pos + Limit), ProfileUrl}
                  ELSE {PyNone}}

InitStream ==
    /\ durable = EmptyDb /\ conn = EmptyDb /\ wall = 0 /\ uuids = 0
    /\ cfg \in [kind : Kinds, limit_param : BOOLEAN, total : {MaxTotal}, max_items : {0},
                stall : {FALSE}, mode : {"json"}]
    /\ pc = "idle" /\ run_id = 0 /\ resumed = FALSE /\ start_state = NoDict
    /\ seq_counter = 0 /\ items_seen = 0 /\ loc = RestoreLocals(NoDict) /\ batch_idx = 0
    /\ batch = NoBatch /\ faults = 0 /\ events = <<>> /\ cpNext = <<>>
    /\ restarts = MaxRuns - 1                 \* one stream per behaviour
    /\ firstReq = [expect |-> <<>>, got |-> <<>>, block |-> FALSE] /\ refetched = 0 /\ lostRows = 0
    /\ IdleSops /\ IdleBucket /\ IdleWindow /\ IdleReq /\ IdleFn /\ IdleEng

\* runtime 78-199 with a 200 response whose page the endpoint chooses
RtRequestAny ==
    /\ pc = "request"
    /\ LET l   == LocalsAtRequest(cfg.kind, loc)
           req == BuildRequest(cfg.kind, cfg.limit_param, loc)
       IN  /\ loc' = l
           /\ firstReq' = IF firstReq.got = <<>> THEN [firstReq EXCEPT !.got = <<req>>] ELSE firstReq
           /\ \E page \in AnyPages(cfg.kind, req) :
                 /\ batch' = [req |-> req, page |-> page, i |-> 1]
                 /\ pc' = AfterRequest("page", Len(page.items))
                 /\ events' = Append(events, Event("request", batch_idx, Len(page.items), l))
                 /\ refetched' = IF AlreadyStored(conn, run_id, page.items)
                                 THEN refetched + 1 ELSE refetched
    /\ UNCHANGED <<storeVars, cfg, run_id, resumed, start_state, seq_counter, items_seen,
                   batch_idx, faults, restarts, cpNext, lostRows>>
    /\ UNCHANGED <<sopVars, bucketVars, windowVars, reqVars, fnVars, engVars>>

NextStream ==
    \/ Start \/ RtRequest \/ RtRequestAny \/ RtYield \/ ConsumerPut \/ RtAdvance
    \/ RtCheckpoint \/ Finish

SpecStream == InitStream /\ [][NextStream]_vars

\* the stream has returned (the consumer's loop is over)
StreamEnded == pc = "closing"

\* the events of batch b that follow event k
After(k, e, b) == {j \in (k + 1)..Len(events) : events[j].e = e /\ events[j].b = b}

\* a request of the stream that was answered with 1..limit-1 records while a
\* limit parameter is set
ShortBatches ==
    {k \in EventsOf("request") :
        /\ cfg.limit_param /\ 0 < events[k].i /\ events[k].i < Limit
        /\ k < Len(events) => events[k + 1].e \notin {"failed", "block"}}

\* C34 as stated: after a short batch the records are yielded, the state is
\* advanced, the checkpoint of that batch is emitted and no request follows.
C34_ShortBatchCheckpointed ==
    \A k \in ShortBatches :
        /\ \A j \in (k + 1)..Len(events) : events[j].e # "request"
        /\ StreamEnded =>
              /\ Cardinality(After(k, "yield", events[k].b)) = events[k].i
              /\ Cardinality(After(k, "advance", events[k].b)) = 1
              /\ Cardinality(After(k, "checkpoint", events[k].b)) = 1

\* C34, amended: after a short batch the records are yielded and no request
\* follows; the checkpoint of the batch is emitted exactly when the advance step
\* does not end the stream, which it does for kind unknown, for a cursor_token
\* page without a new cursor and for a next_url page without a next link.
C34_ShortBatchStops ==
    \A k \in ShortBatches :
        LET b  == events[k].b
            a  == advance(cfg.kind, cfg.limit_param, events[k].st, batch.page, events[k].i)
        IN  /\ \A j \in (k + 1)..Len(events) : events[j].e # "request"
            /\ StreamEnded =>
                  /\ Cardinality(After(k, "yield", b)) = events[k].i
                  /\ Cardinality(After(k, "advance", b)) = (IF a.ok THEN 1 ELSE 0)
                  /\ Cardinality(After(k, "checkpoint", b)) = (IF a.ok THEN 1 ELSE 0)
                  /\ \A j \in After(k, "checkpoint", b) :
                        /\ events[j].st = a.loc
                        /\ \A i \in After(k, "yield", b) \cup After(k, "advance", b) : i < j
                  /\ cfg.kind \in {"page", "offset"} => a.ok

\* C34 witness: an offset stream got a full page and then a short one, and ended
\* on the checkpoint of the short batch
C34_Witness ==
    /\ StreamEnded /\ cfg.kind = "offset" /\ cfg.limit_param /\ events # <<>>
    /\ LastEvent.e = "checkpoint" /\ LastEvent.b = 1
    /\ \E k \in ShortBatches : events[k].b = 1 /\ events[k].i = Limit - 1
    /\ Cardinality(EventsOf("request")) = 2

\* SpecStream with the scheduling of a single-threaded generator and its consumer:
\* a step that can be taken is taken
SpecStreamFair == SpecStream /\ WF_vars(NextStream)

\* C35: paginate_items terminates whatever the endpoint answers: one stream
\* issues at most max_batches requests; a stream of kind unknown issues one
\* request, emits no checkpoint and has issued exactly one request when it ends;
\* and every stream ends.
C35_Terminates ==
    /\ [](/\ Cardinality(EventsOf("request")) <= MaxBatches
          /\ cfg.kind = "unknown" =>
                /\ Cardinality(EventsOf("request")) <= 1
                /\ EventsOf("checkpoint") = {}
                /\ StreamEnded => Cardinality(EventsOf("request")) = 1)
    /\ <>(pc = "exited")

\* C35 witness: a cursor_token stream whose endpoint handed out a new cursor
\* with every full page was stopped by max_batches
C35_Witness ==
    /\ StreamEnded /\ cfg.kind = "cursor_token" /\ ~cfg.limit_param
    /\ Cardinality(EventsOf("request")) = MaxBatches
    /\ Cardinality(EventsOf("checkpoint")) = MaxBatches
    /\ LastEvent.e = "checkpoint" /\ batch.page.next_cursor # PyNone

(***************************************************************************)
(* SpecFaulty: the run of Spec on an endpoint that may answer 200 with a   *)
(* body that reports a failure, and with a store whose save_state may      *)
(* raise.                                                                  *)
(***************************************************************************)
\* A 200 JSON body: the value of its success, error, errors and status
\* fields, whether it carries the list of records of the page, and whether its
\* text holds an element that profile.extract.html_items_selector selects.
JsonBodies ==
    [success : {"absent", "true", "false"}, error : {"absent", "empty", "text"},
     errors : {"absent", "empty", "list", "text"}, status : {"absent", "ok", "fail"},
     records : BOOLEAN, markup : BOOLEAN]

\* resp_read 198-240: <<>> is None
detect_soft_error(data) ==
    IF data.error = "text" THEN <<"error">>
    ELSE IF data.errors = "list" THEN <<"errors: non-empty list">>
    ELSE IF data.success = "false" THEN <<"success=false">>
    ELSE IF data.status = "fail" THEN <<"status=fail">>
    ELSE <<>>

\* resp_read 243-327 for a body that is JSON text
safe_read_json(body, detect_soft) ==
    IF detect_soft /\ detect_soft_error(body) # <<>>
    THEN [ok |-> FALSE, error |-> <<"soft_error">>, data |-> <<body>>]
    ELSE [ok |-> TRUE, error |-> <<>>, data |-> <<body>>]

\* http_engine 937-974 for a 200 response: the error safe_get_json returns
safe_get_json(body) ==
    LET jr == safe_read_json(body, TRUE)
    IN  IF jr.ok THEN <<>> ELSE jr.error

\* the row html_extract.extract_items_from_html builds from the element
HtmlRow == [id |-> PyNone, val |-> 1]

\* runtime 181-199: the items of a 200 response with this body; `served` is the
\* page whose records the body carries
PageOfBody(mode, body, served) ==
    LET jr         == safe_read_json(body, TRUE)
        from_json  == mode \in {"json", "auto"} /\ jr.ok
        json_items == IF from_json /\ body.records THEN served.items ELSE <<>>
        html_items == IF mode \in {"html", "auto"} /\ body.markup THEN <<HtmlRow>> ELSE <<>>
        items      == IF mode = "json" /\ ~jr.ok THEN <<>>
                      ELSE IF json_items # <<>> THEN json_items ELSE html_items
    IN  [items       |-> items,
         next_cursor |-> IF from_json THEN served.next_cursor ELSE PyNone,
         next_link   |-> IF from_json THEN served.next_link ELSE PyNone]

\* the bodies the endpoint answers with when it fails
SoftBodies ==
    {b \in JsonBodies :
        /\ b.error = "absent" /\ b.status = "absent"
        /\ \/ b.success = "false" /\ b.errors = "absent" /\ ~b.records
           \/ b.success = "absent" /\ b.errors = "text" /\ b.records /\ ~b.markup}

InitFaulty ==
    /\ durable = EmptyDb /\ conn = EmptyDb /\ wall = 0 /\ uuids = 0
    /\ cfg \in [kind : {"offset", "cursor_token"}, limit_param : {TRUE}, total : {MaxTotal},
                max_items : {0}, stall : {FALSE}, mode : {"json", "auto"}]
    /\ pc = "idle" /\ run_id = 0 /\ resumed = FALSE /\ start_state = NoDict
    /\ seq_counter = 0 /\ items_seen = 0 /\ loc = RestoreLocals(NoDict) /\ batch_idx = 0
    /\ batch = NoBatch /\ faults = 0 /\ restarts = 0 /\ events = <<>> /\ cpNext = <<>>
    /\ firstReq = [expect |-> <<>>, got |-> <<>>, block |-> FALSE] /\ refetched = 0 /\ lostRows = 0
    /\ IdleSops /\ IdleBucket /\ IdleWindow /\ IdleReq /\ IdleFn /\ IdleEng

\* runtime 78-199 for a 200 response whose body reports a failure
RtSoftError ==
    /\ pc = "request"
    /\ faults < MaxFaults
    /\ faults' = faults + 1
    /\ \E body \in SoftBodies :
        LET l    == LocalsAtRequest(cfg.kind, loc)
            req  == BuildRequest(cfg.kind, cfg.limit_param, loc)
            page == PageOfBody(cfg.mode, body, ServerPageOf(cfg, req))
            n    == Len(page.items)
            asked == Append(events, [e |-> "request", b |-> batch_idx, i |-> n, st |-> l,
                                     body |-> body])
        IN  /\ loc' = l
            /\ firstReq' = IF firstReq.got = <<>> THEN [firstReq EXCEPT !.got = <<req>>]
                           ELSE firstReq
            /\ pc' = AfterRequest("page", n)
            /\ batch' = IF n > 0 THEN [req |-> req, page |-> page, i |-> 1] ELSE batch
            /\ events' = IF n > 0 THEN asked
                         ELSE Append(asked, [e |-> "failed", b |-> batch_idx, i |-> 0,
                                             st |-> l, outcome |-> "no_items"])
    /\ UNCHANGED <<storeVars, cfg, run_id, resumed, start_state, seq_counter, items_seen,
                   batch_idx, restarts, cpNext, refetched, lostRows>>
    /\ UNCHANGED <<sopVars, bucketVars, windowVars, reqVars, fnVars, engVars>>

\* a stream that passes the exception of its callback on to the consumer
AfterCallback_propagate(raised, limit_param, n, bidx) ==
    IF raised THEN [pc |-> "crashed", batch_idx |-> bidx]
    ELSE IF limit_param /\ Limit > 0 /\ n < Limit THEN [pc |-> "closing", batch_idx |-> bidx]
    ELSE [pc |-> IF bidx + 1 < MaxBatches THEN "request" ELSE "closing",
          batch_idx |-> bidx + 1]

\* runtime 242-260: where the stream goes after on_checkpoint, raised or not
AfterCallback(raised, limit_param, n, bidx) ==
    IF StopAfterBatch(limit_param, n) THEN [pc |-> "closing", batch_idx |-> bidx]
    ELSE [pc |-> IF bidx + 1 < MaxBatches THEN "request" ELSE "closing",
          batch_idx |-> bidx + 1]

\* runtime 242-260 with tool_pipeline 1031-1044 when db.save_state raises: the
\* exception leaves checkpoint_cb and is dropped at runtime.py:254
RtCheckpointFails ==
    /\ pc = "checkpoint"
    /\ faults < MaxFaults
    /\ faults' = faults + 1
    /\ LET st == StateDict(cfg.kind, loc, batch_idx)
           a  == AfterCallback(TRUE, cfg.limit_param, Len(batch.page.items), batch_idx)
       IN  /\ events' = Append(events, Event("checkpoint_failed", batch_idx, 0,
                                             RestoreLocals(Some(st))))
           /\ pc' = a.pc
           /\ batch_idx' = a.batch_idx
    /\ UNCHANGED <<storeVars, cfg, run_id, resumed, start_state, seq_counter, items_seen, loc,
                   batch, restarts, cpNext, firstReq, refetched, lostRows>>
    /\ UNCHANGED <<sopVars, bucketVars, windowVars, reqVars, fnVars, engVars>>

\* runtime 115-148 with tool_pipeline 1046-1087 when db.save_state raises in
\* on_block_cb: the exception is dropped at tool_pipeline.py:1066, then
\* db.add_blocked_event raises AttributeError, dropped at tool_pipeline.py:1086
RtBlockSaveFails ==
    /\ pc = "request"
    /\ faults < MaxFaults
    /\ faults' = faults + 1
    /\ \E resp \in {r \in FailureResponses : classify_block(r) # <<>>} :
        LET l    == LocalsAtRequest(cfg.kind, loc)
            req  == BuildRequest(cfg.kind, cfg.limit_param, loc)
            st   == BlockState(cfg.kind, l, batch_idx)
        IN  /\ loc' = l
            /\ firstReq' = IF firstReq.got = <<>> THEN [firstReq EXCEPT !.got = <<req>>]
                           ELSE firstReq
            /\ pc' = AfterRequest("status", 0)
            /\ events' = Append(Append(events, Event("request", batch_idx, 0, l)),
                                [e |-> "block_unsaved", b |-> batch_idx, i |-> 0,
                                 st |-> RestoreLocals(Some(st)), resp |-> resp,
                                 hint |-> classify_block(resp)[1].hint])
    /\ UNCHANGED <<storeVars, cfg, run_id, resumed, start_state, seq_counter, items_seen,
                   batch_idx, batch, restarts, cpNext, refetched, lostRows>>
    /\ UNCHANGED <<sopVars, bucketVars, windowVars, reqVars, fnVars, engVars>>

NextFaulty ==
    \/ Start \/ RtRequest \/ RtYield \/ ConsumerPut \/ RtAdvance \/ RtCheckpoint
    \/ Finish \/ Kill
    \/ RtSoftError \/ RtCheckpointFails \/ RtBlockSaveFails

SpecFaulty == InitFaulty /\ [][NextFaulty]_vars

\* the body reports an application-level failure
SelfReportsFailure(body) ==
    \/ body.success = "false"
    \/ body.error = "text" \/ body.errors \in {"list", "text"}
    \/ body.status = "fail"

\* C21: for a 200 response whose body reports a failure, safe_get_json returns
\* an error, and the stream yields no record of its batch, makes no advance and
\* emits no checkpoint for it.
C21_SoftErrorNotAPage ==
    \A k \in DOMAIN events :
        ("body" \in DOMAIN events[k] /\ SelfReportsFailure(events[k].body)) =>
            /\ safe_get_json(events[k].body) # <<>>
            /\ \A j \in (k + 1)..Len(events) :
                  events[j].e \notin {"yield", "advance", "checkpoint"}

\* C22: after a checkpoint whose save_state raised, the stream requests no
\* further batch; after a block whose save_state raised, no blocked event is
\* recorded.
C22_FailedSaveNotSuccess ==
    /\ \A k \in EventsOf("checkpoint_failed") :
          \A j \in (k + 1)..Len(events) : events[j].e # "request"
    /\ EventsOf("block_unsaved") # {} => conn.blocked = <<>>

\* C23: a callback that raised leaves the stream where a callback that
\* returned leaves it: after a failed checkpoint the stream is at the next
\* request or at its normal end, with the state the advance left; after a block
\* it is at its normal end; it never ends with an exception.
C23_CallbackFailureContained ==
    /\ pc # "crashed"
    /\ (events # <<>> /\ LastEvent.e = "checkpoint_failed") =>
          LET a == events[Len(events) - 1]
              n == Len(batch.page.items)
          IN  /\ a.e = "advance" /\ a.b = LastEvent.b /\ loc = a.st
              /\ IF cfg.limit_param /\ n < Limit
                 THEN pc = "closing" /\ batch_idx = LastEvent.b
                 ELSE /\ batch_idx = LastEvent.b + 1
                      /\ pc = (IF batch_idx < MaxBatches THEN "request" ELSE "closing")
    /\ \A k \in EventsOf("request") :
          (k > 1 /\ events[k - 1].e = "checkpoint_failed") =>
              /\ events[k].b = events[k - 1].b + 1
              /\ events[k].st = LocalsAtRequest(cfg.kind, events[k - 1].st)
    /\ (events # <<>> /\ LastEvent.e \in {"block", "block_unsaved"}) => pc = "closing"

\* C23 witness: the checkpoint of the first batch failed and the second batch
\* was requested from the advanced state and yielded
C23_Witness ==
    /\ Len(events) >= 2 /\ LastEvent.e = "yield" /\ LastEvent.b = 1
    /\ \E k \in EventsOf("checkpoint_failed") : events[k].b = 0
    /\ cfg.kind = "offset" /\ loc.offset = Limit


(***************************************************************************)
(* SpecStore: put_both, save_state and load_state called in any order on   *)
(* one open store.                                                         *)
(***************************************************************************)
MaxStoreOps == 3

StoreItems == {[id |-> PyInt(1), val |-> 0], [id |-> PyInt(1), val |-> 1],
               [id |-> PyNone, val |-> 0], [id |-> EmptyStr, val |-> 1]}
StoreRuns  == {1, 2}
StoreKeys  == {<<1, 1>>, <<1, 2>>, <<2, 1>>}          \* (profile, run_id)
StoreStates ==
    {StateDict("offset", [RestoreLocals(NoDict) EXCEPT !.offset = 2 * Limit], 1),
     StateDict("cursor_token", [RestoreLocals(NoDict) EXCEPT !.cursor = CursorAt(Limit)], 0)}
StoreItemKeys == {make_item_key(it) : it \in StoreItems}

\* run_state without its timestamps
Strip(table) == [i \in DOMAIN table |-> [table[i] EXCEPT !.updated_at = 0]]

InitStore ==
    /\ durable = EmptyDb /\ conn = EmptyDb /\ wall = 0 /\ uuids = 0
    /\ IdleRun /\ IdleBucket /\ IdleWindow /\ IdleReq /\ IdleFn /\ IdleEng
    /\ sops = [n |-> 0, puts |-> [k \in StoreItemKeys |-> 0]]
    /\ lastSaved = [k \in StoreKeys |-> NoDict]
    /\ lastLoad = <<>>
    /\ prevSave = [args |-> <<>>, once |-> <<>>, repeat |-> FALSE]

\* storage_sqlite 215-231
StorePut ==
    /\ sops.n < MaxStoreOps
    /\ \E item \in StoreItems, rid \in StoreRuns :
        /\ conn' = put_both(conn, item, rid, Len(conn.raw) + 1)
        /\ sops' = [n |-> sops.n + 1,
                    puts |-> [sops.puts EXCEPT ![make_item_key(item)] = @ + 1]]
    /\ UNCHANGED <<durable, wall, uuids, lastSaved, lastLoad, prevSave>>
    /\ UNCHANGED <<runVars, bucketVars, windowVars, reqVars, fnVars, engVars>>

\* storage_sqlite 245-275
StoreSave ==
    /\ sops.n < MaxStoreOps
    /\ \E key \in StoreKeys, state \in StoreStates :
        LET bi == state.batch_idx[2]
            s  == save_state(Store, key[1], key[2], state, bi, Len(conn.raw), Len(conn.raw),
                             wall + 1)
            rep == prevSave.args = <<key, state, Len(conn.raw)>>
        IN  /\ durable' = s.durable /\ conn' = s.conn
            /\ lastSaved' = [lastSaved EXCEPT ![key] = Some(state)]
            /\ prevSave' = [args |-> <<key, state, Len(conn.raw)>>,
                            once |-> IF rep THEN prevSave.once ELSE Strip(s.conn.run_state),
                            repeat |-> rep]
    /\ wall' = wall + 1
    /\ sops' = [sops EXCEPT !.n = @ + 1]
    /\ UNCHANGED <<uuids, lastLoad>>
    /\ UNCHANGED <<runVars, bucketVars, windowVars, reqVars, fnVars, engVars>>

\* storage_sqlite 277-287
StoreLoad ==
    /\ sops.n < MaxStoreOps
    /\ \E key \in StoreKeys :
        lastLoad' = <<[key |-> key, result |-> load_state(conn, key[1], key[2]),
                       expect |-> lastSaved[key]]>>
    /\ sops' = [sops EXCEPT !.n = @ + 1]
    /\ UNCHANGED <<durable, conn, wall, uuids, lastSaved, prevSave>>
    /\ UNCHANGED <<runVars, bucketVars, windowVars, reqVars, fnVars, engVars>>

NextStore == StorePut \/ StoreSave \/ StoreLoad

SpecStore == InitStore /\ [][NextStore]_vars

\* C4: there is at most one run_state row per (profile, run_id); a save repeated
\* with the same arguments leaves the table (timestamps aside) as the first save
\* left it; load_state returns the state last saved under the key, None if none.
C4_SaveLoad ==
    /\ \A i, j \in DOMAIN conn.run_state :
          (conn.run_state[i].profile = conn.run_state[j].profile
             /\ conn.run_state[i].run_id = conn.run_state[j].run_id) => i = j
    /\ prevSave.repeat => Strip(conn.run_state) = prevSave.once
    /\ lastLoad # <<>> => lastLoad[1].result = lastLoad[1].expect
    /\ durable.run_state = conn.run_state

\* C4 witness: the same state saved twice under one key, then loaded
C4_Witness ==
    /\ prevSave.repeat /\ Len(conn.run_state) = 1
    /\ lastLoad # <<>> /\ lastLoad[1].result # NoDict /\ sops.n = 3

\* C5: after k applications of put_both to records of one item_key the raw log
\* holds k rows of that key and the unique view holds one row of it, with
\* seen_count = k (none when k = 0).
C5_Dedup ==
    \A k \in StoreItemKeys :
        /\ Count(conn.raw, LAMBDA r : r.item_key = k) = sops.puts[k]
        /\ Count(conn.unique, LAMBDA r : r.item_key = k) = IF sops.puts[k] > 0 THEN 1 ELSE 0
        /\ \A i \in DOMAIN conn.unique :
              conn.unique[i].item_key = k => conn.unique[i].seen_count = sops.puts[k]

\* C5 witness: the same key put twice
C5_Witness ==
    \E k \in StoreItemKeys :
        /\ sops.puts[k] = 2
        /\ \E i \in DOMAIN conn.unique :
              conn.unique[i].item_key = k /\ conn.unique[i].seen_count = 2
        /\ Count(conn.raw, LAMBDA r : r.item_key = k) = 2

(***************************************************************************)
(* SpecUpsert: sightings reaching the unique view, through put_both and    *)
(* through _upsert_unique called with any key and id.                      *)
(***************************************************************************)
MaxUpserts == 3

UpsertIds == {PyNone, PyStr(1), PyStr(2)}

\* the last non-null id sighted under each key (None when there was none)
Sighted(known, item_key, item_id) ==
    [known EXCEPT ![item_key] = IF item_id # PyNone THEN item_id ELSE @]

InitUpsert ==
    /\ durable = EmptyDb /\ conn = EmptyDb /\ wall = 0 /\ uuids = 0
    /\ IdleRun /\ IdleBucket /\ IdleWindow /\ IdleReq /\ IdleEng
    /\ sops = [n |-> 0, known |-> [k \in StoreItemKeys |-> PyNone]]
    /\ lastSaved = <<>> /\ lastLoad = <<>> /\ prevSave = <<>>
    /\ fn = <<>>

\* storage_sqlite 215-231
UpsertPut ==
    /\ sops.n < MaxUpserts
    /\ \E item \in StoreItems :
        /\ conn' = put_both(conn, item, 1, Len(conn.raw) + 1)
        /\ sops' = [n |-> sops.n + 1,
                    known |-> Sighted(sops.known, make_item_key(item), extract_item_id(item))]
        /\ fn' = <<[op |-> "put_both", item_key |-> make_item_key(item),
                    item_id |-> extract_item_id(item),
                    before |-> sops.known[make_item_key(item)]]>>
    /\ UNCHANGED <<durable, wall, uuids, lastSaved, lastLoad, prevSave>>
    /\ UNCHANGED <<runVars, bucketVars, windowVars, reqVars, engVars>>

\* storage_sqlite 183-213
UpsertCall ==
    /\ sops.n < MaxUpserts
    /\ \E item_key \in StoreItemKeys, item_id \in UpsertIds :
        /\ conn' = upsert_unique(conn, item_key, item_id, [id |-> item_id, val |-> 0])
        /\ sops' = [n |-> sops.n + 1, known |-> Sighted(sops.known, item_key, item_id)]
        /\ fn' = <<[op |-> "_upsert_unique", item_key |-> item_key, item_id |-> item_id,
                    before |-> sops.known[item_key]]>>
    /\ UNCHANGED <<durable, wall, uuids, lastSaved, lastLoad, prevSave>>
    /\ UNCHANGED <<runVars, bucketVars, windowVars, reqVars, engVars>>

NextUpsert == UpsertPut \/ UpsertCall

SpecUpsert == InitUpsert /\ [][NextUpsert]_vars

\* C32: a unique row whose key was once sighted with a non-null item_id holds
\* the last non-null id sighted, never null: a sighting with a null id leaves
\* the stored id as it was.
C32_IdNeverNulled ==
    \A i \in DOMAIN conn.unique :
        LET row == conn.unique[i]
        IN  sops.known[row.item_key] # PyNone => row.item_id = sops.known[row.item_key]

\* C32 witness: a row that had an id has just received a sighting with a null id
C32_Witness ==
    /\ fn # <<>> /\ fn[1].item_id = PyNone /\ fn[1].before # PyNone
    /\ \E i \in DOMAIN conn.unique :
          conn.unique[i].item_key = fn[1].item_key /\ conn.unique[i].item_id = fn[1].before
             /\ conn.unique[i].seen_count = 2

(***************************************************************************)
(* http_engine.TokenBucket.  Time is counted in ticks and tokens in units: *)
(* the bucket gains one unit per tick and a request costs TicksPerToken    *)
(* units, so 1/rate_per_sec is TicksPerToken ticks.                        *)
(***************************************************************************)
TicksPerToken == 2     \* ticks per token: the resolution of the clock
MaxTime  == 5          \* the clock runs to MaxTime
MaxCalls == 4          \* acquire() calls in one behaviour
Callers  == {1, 2}     \* threads that share the limiter

\* lines 152-154
TokenBucket_post_init(capacity, start_full) ==
    [capacity |-> capacity, start_full |-> start_full,
     tokens |-> IF start_full THEN capacity ELSE 0, last_ts |-> 0]

\* an acquire that forgets the refill
TokenBucket_acquire_no_refill(b, now) ==
    IF b.tokens >= TicksPerToken
    THEN [tb |-> [b EXCEPT !.last_ts = now, !.tokens = @ - TicksPerToken], wait |-> 0]
    ELSE [tb |-> [b EXCEPT !.last_ts = now, !.tokens = 0], wait |-> TicksPerToken - b.tokens]

\* lines 156-170: the bucket after the call and the wait it returns
TokenBucket_acquire(b, now) ==
    LET elapsed == Max(0, now - b.last_ts)
        tokens  == Min(b.capacity, b.tokens + elapsed)
    IN  IF tokens >= TicksPerToken
        THEN [tb |-> [b EXCEPT !.last_ts = now, !.tokens = tokens - TicksPerToken], wait |-> 0]
        ELSE [tb |-> [b EXCEPT !.last_ts = now, !.tokens = 0],
              wait |-> Max(0, TicksPerToken - tokens)]

InitBucket ==
    /\ durable = EmptyDb /\ conn = EmptyDb /\ wall = 0 /\ uuids = 0
    /\ IdleRun /\ IdleSops /\ IdleWindow /\ IdleReq /\ IdleFn /\ IdleEng
    /\ \E capacity \in 1..(2 * TicksPerToken), start_full \in BOOLEAN :
          tb = TokenBucket_post_init(capacity, start_full)
    /\ tbNow = 0
    /\ tbWake = [c \in Callers |-> 0]
    /\ tbSent = <<>>
    /\ tbHist = [calls |-> 0, lastCall |-> 0, lastWait |-> 0, spaced |-> TRUE]

BucketTick ==
    /\ tbNow < MaxTime
    /\ tbNow' = tbNow + 1
    /\ UNCHANGED <<tb, tbWake, tbSent, tbHist>>
    /\ UNCHANGED <<storeVars, runVars, sopVars, windowVars, reqVars, fnVars, engVars>>

\* HttpEngine.request 683: self._sleep(limiter.acquire()), then the request is sent
BucketAcquire(c) ==
    /\ tbHist.calls < MaxCalls
    /\ tbWake[c] <= tbNow
    /\ LET a == TokenBucket_acquire(tb, tbNow)
       IN  /\ tb' = a.tb
           /\ tbWake' = [tbWake EXCEPT ![c] = tbNow + a.wait]
           /\ tbSent' = Append(tbSent, tbNow + a.wait)
           /\ tbHist' = [calls |-> tbHist.calls + 1, lastCall |-> tbNow, lastWait |-> a.wait,
                         spaced |-> tbHist.spaced /\ (tbHist.calls = 0
                                        \/ tbNow - tbHist.lastCall >= TicksPerToken)]
    /\ UNCHANGED tbNow
    /\ UNCHANGED <<storeVars, runVars, sopVars, windowVars, reqVars, fnVars, engVars>>

NextBucket == BucketTick \/ \E c \in Callers : BucketAcquire(c)

SpecBucket == InitBucket /\ [][NextBucket]_vars

SentIn(a, b) == Cardinality({i \in DOMAIN tbSent : a <= tbSent[i] /\ tbSent[i] <= b})

\* C7: with capacity C >= 1 and rate r, the requests sent in any interval of
\* length T number at most C + r*T (in units: one request is TicksPerToken
\* units, r*T is T units).
C7_NoDoubleAdmit ==
    tb.capacity >= TicksPerToken =>
        \A a \in 0..(2 * MaxTime) : \A b \in a..(2 * MaxTime) :
            SentIn(a, b) * TicksPerToken <= tb.capacity + (b - a)

\* C8: a bucket of capacity >= 1 that starts full returns wait 0 to every
\* acquire of a sequence of calls spaced at least 1/r apart, and its token
\* count stays within [0, capacity].
C8_SpacedNoWait ==
    /\ 0 <= tb.tokens /\ tb.tokens <= tb.capacity
    /\ (tb.start_full /\ tb.capacity >= TicksPerToken /\ tbHist.spaced /\ tbHist.calls > 0)
          => tbHist.lastWait = 0

\* C8 witness: three calls, each exactly 1/r after the one before, on a bucket of capacity 1
C8_Witness ==
    /\ tb.start_full /\ tb.capacity = TicksPerToken /\ tbHist.spaced
    /\ tbHist.calls = 3 /\ tbHist.lastCall = 2 * TicksPerToken /\ tbHist.lastWait = 0

(***************************************************************************)
(* http_engine.SlidingWindow, on the same clock.                           *)
(***************************************************************************)
WindowSec == 2         \* window_sec, in ticks
MaxRequests == 2       \* max_requests ranges over 1..MaxRequests

\* lines 181-193: the window after the call and the wait it returns
SlidingWindow_acquire(w, now) ==
    LET cutoff == now - w.window_sec
        stamps == SelectSeq(w.stamps, LAMBDA t : t >= cutoff)
        earliest == CHOOSE t \in {stamps[i] : i \in DOMAIN stamps} :
                        \A i \in DOMAIN stamps : t <= stamps[i]
    IN  IF Len(stamps) < w.max_requests
        THEN [sw |-> [w EXCEPT !.stamps = Append(stamps, now)], wait |-> 0]
        ELSE [sw |-> [w EXCEPT !.stamps = stamps],
              wait |-> Max(0, (IF stamps = <<>> THEN now ELSE earliest) + w.window_sec - now)]

InitWindow ==
    /\ durable = EmptyDb /\ conn = EmptyDb /\ wall = 0 /\ uuids = 0
    /\ IdleRun /\ IdleSops /\ IdleBucket /\ IdleReq /\ IdleFn /\ IdleEng
    /\ \E n \in 1..MaxRequests :
          sw = [max_requests |-> n, window_sec |-> WindowSec, stamps |-> <<>>]
    /\ swNow = 0
    /\ swWake = [c \in Callers |-> 0]
    /\ swAdmit = <<>>

WindowTick ==
    /\ swNow < MaxTime
    /\ swNow' = swNow + 1
    /\ UNCHANGED <<sw, swWake, swAdmit>>
    /\ UNCHANGED <<storeVars, runVars, sopVars, bucketVars, reqVars, fnVars, engVars>>

\* HttpEngine.request 683: self._sleep(limiter.acquire()), then the request is sent
WindowAcquire(c) ==
    /\ Len(swAdmit) < MaxCalls
    /\ swWake[c] <= swNow
    /\ LET a == SlidingWindow_acquire(sw, swNow)
       IN  /\ sw' = a.sw
           /\ swWake' = [swWake EXCEPT ![c] = swNow + a.wait]
           /\ swAdmit' = Append(swAdmit, swNow + a.wait)
    /\ UNCHANGED swNow
    /\ UNCHANGED <<storeVars, runVars, sopVars, bucketVars, reqVars, fnVars, engVars>>

NextWindow == WindowTick \/ \E c \in Callers : WindowAcquire(c)

SpecWindow == InitWindow /\ [][NextWindow]_vars

\* C6: no window of length W (here [a, a+W) ) holds more than N admitted calls,
\* a call being admitted at its call time plus the wait it was returned.
C6_WindowBound ==
    \A a \in 0..(2 * MaxTime) :
        Cardinality({i \in DOMAIN swAdmit : a <= swAdmit[i] /\ swAdmit[i] < a + sw.window_sec})
            <= sw.max_requests

(***************************************************************************)
(* http_engine.HttpEngine.request: the attempt loop, the fallback ladder   *)
(* and the retry decision.  Delays are counted in ticks.                   *)
(***************************************************************************)
MaxAttempts   == 3     \* pol.max_attempts ranges over 1..MaxAttempts
BaseDelay     == 1     \* pol.base_delay
CapDelay      == 3     \* pol.cap_delay
RetryAfterSec == 5     \* the positive Retry-After value the server sends
MaxTries      == 2     \* the largest browser_fallback.max_tries

RetryStatuses == {429, 500, 502, 503, 504}

\* A Retry-After header as the server writes it: absent, decimal seconds, an
\* HTTP-date (given by its distance from the instant it is parsed), or text
\* that is neither.
NoHeader == <<"absent", 0>>
RetryAfterHeaders ==
    {NoHeader, <<"num", 0>>, <<"num", RetryAfterSec>>,
     <<"date", -1>>, <<"date", RetryAfterSec + 1>>, <<"junk", 0>>}

Responses ==
    {[status |-> sc, retry_after |-> NoHeader] : sc \in {200, 403, 404}}
        \cup {[status |-> 429, retry_after |-> h] : h \in RetryAfterHeaders}

IsSuccess(sc) == 200 <= sc /\ sc < 400

FallbackCfgs ==
    {[enabled |-> FALSE, strategy |-> "sec_headers", pw_enabled |-> FALSE, on_status |-> {403}, max_tries |-> 1],
     [enabled |-> TRUE, strategy |-> "sec_headers", pw_enabled |-> FALSE, on_status |-> {403}, max_tries |-> 1],
     [enabled |-> TRUE, strategy |-> "sec_headers", pw_enabled |-> FALSE, on_status |-> {403, 429}, max_tries |-> MaxTries],
     [enabled |-> TRUE, strategy |-> "auto", pw_enabled |-> TRUE, on_status |-> {403}, max_tries |-> 1],
     [enabled |-> TRUE, strategy |-> "playwright_prime", pw_enabled |-> FALSE, on_status |-> {403, 429}, max_tries |-> 1],
     [enabled |-> TRUE, strategy |-> "playwright_html", pw_enabled |-> FALSE, on_status |-> {403}, max_tries |-> 1]}

RECURSIVE Pow2(_)
Pow2(n) == IF n <= 0 THEN 1 ELSE 2 * Pow2(n - 1)

\* a backoff that is not capped
_backoff_delay_uncapped(attempt, pol) ==
    LET delay == pol.base_delay * Pow2(Max(0, attempt - 1))
    IN  IF pol.jitter = "full" THEN 0..delay ELSE {delay}

\* lines 380-385: the delays _backoff_delay can return (uniform(0, delay) on a tick grid)
_backoff_delay(attempt, pol) ==
    LET exp   == pol.base_delay * Pow2(Max(0, attempt - 1))
        delay == Min(pol.cap_delay, exp)
    IN  IF pol.jitter = "full" THEN 0..delay ELSE {delay}

\* a parser that reads decimal seconds only
_retry_after_seconds_numeric_only(resp) ==
    LET ra == resp.retry_after
    IN  IF ra[1] = "num" /\ ra[2] > 0 THEN <<ra[2]>> ELSE <<>>

\* lines 395-412: <<>> is None, <<sec>> a float
_retry_after_seconds(resp) ==
    LET ra == resp.retry_after
    IN  CASE ra[1] = "absent" -> <<>>
          [] ra[1] = "num"    -> IF ra[2] > 0 THEN <<ra[2]>> ELSE <<>>
          [] ra[1] = "date"   -> IF ra[2] > 0 THEN <<ra[2]>> ELSE <<>>
          [] OTHER            -> <<>>

NoErr == <<"none", 0>>
HttpErr(sc) == <<"http", sc>>
NoSleep == [kind |-> "none", sec |-> 0, attempt |-> 0, resp |-> <<>>]

\* lines 742-743, 784-786, 794-801, 861
Sec1Applies(r) ==
    /\ r.fb.enabled /\ r.fb.strategy \in {"sec_headers", "auto", "mixed"}
    /\ r.sc \in r.fb.on_status /\ 0 < r.fb.max_tries
PwApplies(r) ==
    /\ r.fb.enabled
    /\ (r.fb.pw_enabled \/ r.fb.strategy \in {"playwright_prime", "playwright_html"})
    /\ r.sc \in r.fb.on_status
PwMode(fb) == IF fb.strategy = "playwright_html" THEN "render_html" ELSE "prime_cookies"
Sec2Applies(r) == r.fb.enabled /\ r.sc \in r.fb.on_status /\ 0 < r.fb.max_tries

\* where control goes after each stage of the ladder
AfterPw(r)   == [r EXCEPT !.pc = IF Sec2Applies(r) THEN "sec2" ELSE "decide"]
AfterSec1(r) ==
    IF PwApplies(r)
    THEN [r EXCEPT !.pc = IF PwMode(r.fb) = "prime_cookies" THEN "pw_prime" ELSE "pw_render"]
    ELSE AfterPw(r)
AfterPrimary(r) == IF Sec1Applies(r) THEN [r EXCEPT !.pc = "sec1"] ELSE AfterSec1(r)

Return(r, resp, err) == [r EXCEPT !.pc = "returned", !.result = [resp |-> resp, err |-> err]]

\* limiter.acquire() followed by session.request(); a physical request
\* that no acquire() precedes is counted in unthrottled
Sent(r, throttled) ==
    [r EXCEPT !.physical = @ + 1, !.unthrottled = IF throttled THEN @ ELSE @ + 1]

OtherThanReq == <<storeVars, runVars, sopVars, bucketVars, windowVars, fnVars, engVars>>

InitRequest ==
    /\ durable = EmptyDb /\ conn = EmptyDb /\ wall = 0 /\ uuids = 0
    /\ IdleRun /\ IdleSops /\ IdleBucket /\ IdleWindow /\ IdleFn /\ IdleEng
    /\ \E n \in 1..MaxAttempts, respect \in BOOLEAN, jitter \in {"none", "full"},
          fb \in FallbackCfgs,
          mode \in {"live", "replay_hit", "replay_miss", "replay_no_dir"} :
          \* replay_hit, replay_miss: replay with a cache_dir that holds, or does not
          \* hold, the key; replay_no_dir: replay = True and cache_dir = None
          /\ mode = "replay_no_dir" => (n = 1 /\ ~respect /\ jitter = "none" /\ ~fb.enabled)
          /\ rq = [pc |-> "call", mode |-> mode, fb |-> fb,
                pol |-> [max_attempts |-> n, base_delay |-> BaseDelay, cap_delay |-> CapDelay,
                         jitter |-> jitter, retry_statuses |-> RetryStatuses,
                         respect_retry_after |-> respect],
                attempt |-> 0, resp |-> <<>>, sc |-> 0, last_err |-> NoErr,
                result |-> <<>>, physical |-> 0, unthrottled |-> 0, reissues |-> 0,
                primary |-> 0, raWaits |-> 0, backoffs |-> 0, lastSleep |-> NoSleep,
                primed |-> FALSE, captcha |-> <<>>]

\* lines 661-682: the replay short-circuit inside `if self.cache_dir:`, else the
\* first iteration of the loop
ReqCall ==
    /\ rq # <<>> /\ rq.pc = "call"
    /\ rq' = CASE rq.mode = "replay_hit"  -> Return(rq, <<[status |-> 200, retry_after |-> NoHeader]>>, NoErr)
               [] rq.mode = "replay_miss" -> Return(rq, <<>>, <<"cache_miss", 0>>)
               [] OTHER -> [rq EXCEPT !.pc = "primary", !.attempt = 1]
    /\ UNCHANGED OtherThanReq

\* lines 683-735: one primary attempt
ReqPrimary ==
    /\ rq # <<>> /\ rq.pc = "primary"
    /\ LET r == [Sent(rq, TRUE) EXCEPT !.primary = @ + 1, !.reissues = 0, !.captcha = <<>>]
       IN  \/ rq' = [r EXCEPT !.resp = <<>>, !.last_err = <<"timeout", 0>>, !.pc = "backoff"]
           \/ \E resp \in Responses :
                 rq' = IF IsSuccess(resp.status)
                       THEN Return(r, <<resp>>, NoErr)
                       ELSE AfterPrimary([r EXCEPT !.resp = <<resp>>, !.sc = resp.status])
    /\ UNCHANGED OtherThanReq

\* where control goes after a header-variation reissue of the first or the second loop
AfterSec(r, loop) == IF loop = 1 THEN AfterSec1(r) ELSE [r EXCEPT !.pc = "decide"]

\* one header-variation reissue (lines 744-780 and 862-900); every branch
\* of the loop body leaves the loop
SecReissue(r0, loop) ==
    LET r == [Sent(r0, TRUE) EXCEPT !.reissues = @ + 1]
    IN  \/ rq' = AfterSec([r EXCEPT !.resp = <<>>, !.last_err = <<"timeout", 0>>], loop)
        \/ \E resp \in Responses :
              rq' = IF IsSuccess(resp.status)
                    THEN Return(r, <<resp>>, NoErr)
                    ELSE AfterSec([r EXCEPT !.resp = <<resp>>, !.sc = resp.status], loop)

\* lines 741-780
ReqSecHeaders ==
    /\ rq # <<>> /\ rq.pc = "sec1"
    /\ SecReissue(rq, 1)
    /\ UNCHANGED OtherThanReq

\* browser_engine.render_html, lines 130-131: the page holds a CAPTCHA marker and
\* the result is BrowserResult(ok=False, html="", error="captcha_detected");
\* captcha remembers the response and the cookie jar the stage started with
CaptchaRefused(r) ==
    [Sent(r, FALSE) EXCEPT !.last_err = <<"captcha_detected", 0>>,
                           !.captcha = <<[resp |-> r.resp, primed |-> r.primed]>>]

\* lines 787-811, 838-839: the cookie-priming navigation
\* (browser_engine.prime_cookies_into_session copies the cookies only when r.ok)
ReqPlaywrightPrime ==
    /\ rq # <<>> /\ rq.pc = "pw_prime"
    /\ \/ rq' = AfterPw(rq)                                      \* browser_engine cannot be imported
       \/ rq' = [Sent(rq, FALSE) EXCEPT !.pc = "pw_retry", !.primed = TRUE]   \* okp
       \/ rq' = AfterPw([Sent(rq, FALSE) EXCEPT !.last_err = <<"playwright_prime_failed", 0>>])
       \/ rq' = AfterPw(CaptchaRefused(rq))
    /\ UNCHANGED OtherThanReq

\* lines 812-837: the request repeated with the primed cookies
ReqPlaywrightRetry ==
    /\ rq # <<>> /\ rq.pc = "pw_retry"
    /\ LET r == Sent(rq, TRUE)
       IN  \/ rq' = AfterPw([r EXCEPT !.resp = <<>>, !.last_err = <<"timeout", 0>>])
           \/ \E resp \in Responses :
                 rq' = IF IsSuccess(resp.status)
                       THEN Return(r, <<resp>>, NoErr)
                       ELSE AfterPw([r EXCEPT !.resp = <<resp>>, !.sc = resp.status])
    /\ UNCHANGED OtherThanReq

\* lines 841-853: the full render; the synthesized response has no headers
ReqPlaywrightRender ==
    /\ rq # <<>> /\ rq.pc = "pw_render"
    /\ \/ rq' = AfterPw(rq)                                      \* browser_engine cannot be imported
       \/ rq' = AfterPw([Sent(rq, FALSE) EXCEPT !.last_err = <<"playwright_render_failed", 0>>])
       \/ rq' = AfterPw(CaptchaRefused(rq))
       \/ \E sc \in {200, 403} :
             LET r == Sent(rq, FALSE)
                 resp == [status |-> sc, retry_after |-> NoHeader]
             IN  rq' = IF IsSuccess(sc) THEN Return(r, <<resp>>, NoErr)
                       ELSE AfterPw([r EXCEPT !.resp = <<resp>>, !.sc = sc])
    /\ UNCHANGED OtherThanReq

\* lines 855-900
ReqSecHeadersAgain ==
    /\ rq # <<>> /\ rq.pc = "sec2"
    /\ SecReissue(rq, 2)
    /\ UNCHANGED OtherThanReq

\* a decision that looks at the attempts left only
IsFinal_attempts_only(r) == r.attempt >= r.pol.max_attempts

\* line 917: the outcome of this attempt is returned as final
IsFinal(r) == r.sc \notin r.pol.retry_statuses \/ r.attempt >= r.pol.max_attempts

\* lines 902-927: final return, Retry-After wait, or on to the backoff
ReqRetryDecision ==
    /\ rq # <<>> /\ rq.pc = "decide"
    /\ LET r == [rq EXCEPT !.last_err = HttpErr(rq.sc)]
       IN  rq' =
           IF IsFinal(r)
           THEN Return(r, r.resp, r.last_err)
           ELSE IF ~r.pol.respect_retry_after THEN [r EXCEPT !.pc = "backoff"]
           ELSE IF r.resp = <<>> THEN [r EXCEPT !.pc = "raised"]     \* None.headers
           ELSE LET ra == _retry_after_seconds(r.resp[1])
                IN  IF ra # <<>> /\ ra[1] > 0
                    THEN [r EXCEPT !.pc = "primary", !.attempt = @ + 1, !.raWaits = @ + 1,
                                   !.lastSleep = [kind |-> "retry_after", sec |-> ra[1],
                                                  attempt |-> r.attempt, resp |-> r.resp]]
                    ELSE [r EXCEPT !.pc = "backoff"]
    /\ UNCHANGED OtherThanReq

\* lines 929-935
ReqBackoff ==
    /\ rq # <<>> /\ rq.pc = "backoff"
    /\ IF rq.attempt >= rq.pol.max_attempts
       THEN rq' = Return(rq, <<>>, IF rq.last_err = NoErr THEN <<"request_failed", 0>> ELSE rq.last_err)
       ELSE \E d \in _backoff_delay(rq.attempt, rq.pol) :
               rq' = [rq EXCEPT !.pc = "primary", !.attempt = @ + 1, !.backoffs = @ + 1,
                                !.lastSleep = [kind |-> "backoff", sec |-> d,
                                               attempt |-> rq.attempt, resp |-> rq.resp]]
    /\ UNCHANGED OtherThanReq

NextRequest ==
    \/ ReqCall \/ ReqPrimary \/ ReqSecHeaders \/ ReqPlaywrightPrime \/ ReqPlaywrightRetry
    \/ ReqPlaywrightRender \/ ReqSecHeadersAgain \/ ReqRetryDecision \/ ReqBackoff

SpecRequest == InitRequest /\ [][NextRequest]_vars

\* C9: a Retry-After wait does not consume an attempt: the attempt counter
\* counts one plus the backoff retries only, and a call that gives up on a
\* retryable status has made max_attempts primary attempts besides those
\* that ended in a courtesy wait.
C9_CourtesyWaitKeepsAttempt ==
    /\ rq.pc \in {"primary", "decide", "backoff"} => rq.attempt = 1 + rq.backoffs
    /\ (rq.pc = "returned" /\ rq.mode = "live" /\ rq.result.err # NoErr
           /\ rq.sc \in rq.pol.retry_statuses /\ rq.result.err = HttpErr(rq.sc))
          => rq.primary >= rq.pol.max_attempts + rq.raWaits

\* C10: the delay slept before a retry is the Retry-After value (seconds, or
\* the distance to the HTTP-date) when the policy respects it and the value
\* is positive, and no backoff is slept then; otherwise it is the computed
\* backoff min(cap, base * 2^(attempt-1)), or a value in [0, that] with full jitter.
C10_RetryAfterOverridesBackoff ==
    LET sl == rq.lastSleep
        h  == IF sl.resp = <<>> THEN NoHeader ELSE sl.resp[1].retry_after
        positive == h[1] \in {"num", "date"} /\ h[2] > 0
        full  == Min(rq.pol.cap_delay, rq.pol.base_delay * Pow2(sl.attempt - 1))
    IN  sl.kind # "none" =>
           IF rq.pol.respect_retry_after /\ positive
           THEN sl.kind = "retry_after" /\ sl.sec = h[2]
           ELSE /\ sl.kind = "backoff"
                /\ IF rq.pol.jitter = "none" THEN sl.sec = full ELSE sl.sec \in 0..full

\* C10 witness: a 429 carrying an HTTP-date in the future was answered with
\* a wait of exactly that distance, and an earlier or later retry of the same
\* call slept a backoff
C10_Witness ==
    /\ rq.lastSleep.kind = "retry_after"
    /\ rq.lastSleep.resp[1].retry_after = <<"date", RetryAfterSec + 1>>
    /\ rq.lastSleep.sec = RetryAfterSec + 1
    /\ rq.backoffs > 0 /\ rq.pc = "primary"

\* C25: every physical request of a call (primary attempt, header-variation
\* reissue, cookie-priming navigation and the retry after it, full render) is
\* preceded by one acquire() on the limiter and a sleep of the wait it returned.
C25_EveryRequestThrottled ==
    rq # <<>> => rq.unthrottled = 0

\* C28: a call made in replay mode performs no physical request; it returns the
\* stored response, or no response with the error cache_miss.
C28_ReplayNeverPhysical ==
    (rq # <<>> /\ rq.mode # "live") =>
        /\ rq.physical = 0
        /\ rq.pc \in {"call", "returned"}
        /\ rq.pc = "returned" =>
              \/ rq.result.resp # <<>> /\ rq.result.err = NoErr
              \/ rq.result = [resp |-> <<>>, err |-> <<"cache_miss", 0>>]

\* C30: within one attempt the header-variation step reissues the request at
\* most max_tries times, and only when the fallback is enabled and its strategy
\* selects that step; the browser step runs only when enabled and selected, and
\* no header-variation reissue follows it.
C30_LadderGated ==
    rq # <<>> =>
        /\ rq.reissues <= rq.fb.max_tries
        /\ rq.reissues > 0 =>
              rq.fb.enabled /\ rq.fb.strategy \in {"sec_headers", "auto", "mixed"}
        /\ rq.pc \in {"pw_prime", "pw_retry", "pw_render"} =>
              /\ rq.fb.enabled
              /\ rq.fb.pw_enabled \/ rq.fb.strategy \in {"playwright_prime", "playwright_html"}
        /\ rq.pc = "sec2" => rq.fb.strategy \in {"sec_headers", "auto", "mixed"}

\* C37: request() lets no exception escape: a call never ends in a raised
\* exception, whatever transport failures its attempts and sub-requests meet.
C37_NoExceptionEscapes == rq # <<>> => rq.pc # "raised"

\* C31: a CAPTCHA refusal of the browser stage changes nothing: when the stage
\* started from a blocked response and the browser refused with captcha_detected,
\* the attempt reaches the retry decision, or returns, with that same blocked
\* response, error http_<its status> and the cookie jar it had.
C31_CaptchaKeepsBlockedOutcome ==
    (rq # <<>> /\ rq.captcha # <<>> /\ rq.captcha[1].resp # <<>>
        /\ rq.pc \in {"decide", "returned"})
    => LET c == rq.captcha[1]
       IN  /\ rq.primed = c.primed
           /\ rq.resp = c.resp
           /\ rq.pc = "returned" =>
                 rq.result = [resp |-> c.resp, err |-> HttpErr(c.resp[1].status)]

\* C11: a call never makes more than max_attempts primary attempts; another
\* primary attempt is about to be made only when attempts are left and the
\* outcome before it was a transport failure or a status in retry_statuses,
\* so a non-retryable non-success status ends the call.
C11_RetryOnlyRetryable ==
    /\ rq.primary <= rq.pol.max_attempts
    /\ (rq.pc = "primary" /\ rq.primary >= 1) =>
          /\ rq.primary < rq.pol.max_attempts
          /\ \/ rq.resp = <<>> /\ rq.last_err = <<"timeout", 0>>
             \/ rq.sc \in rq.pol.retry_statuses
    /\ (rq.pc = "returned" /\ rq.result.err = HttpErr(404)) =>
          rq.result.resp # <<>> /\ rq.result.resp[1].status = 404

\* C11 witness: a call that slept a backoff and used all its attempts on a
\* retryable status
C11_Witness ==
    /\ rq.pc = "returned" /\ rq.primary = MaxAttempts /\ rq.pol.max_attempts = MaxAttempts
    /\ rq.result.err = HttpErr(429) /\ rq.backoffs > 0

(***************************************************************************)
(* http_engine._backoff_delay, called for attempts 1, 2, ... of one policy *)
(***************************************************************************)
MaxBackoffCalls == 4   \* the delays of attempts 1..MaxBackoffCalls are computed

InitBackoff ==
    /\ durable = EmptyDb /\ conn = EmptyDb /\ wall = 0 /\ uuids = 0
    /\ IdleRun /\ IdleSops /\ IdleBucket /\ IdleWindow /\ IdleReq /\ IdleEng
    /\ \E base \in 0..(BaseDelay + 1), cap \in 0..CapDelay, jitter \in {"none", "full", "equal"} :
          fn = [pol |-> [max_attempts |-> MaxBackoffCalls, base_delay |-> base, cap_delay |-> cap,
                         jitter |-> jitter, retry_statuses |-> RetryStatuses,
                         respect_retry_after |-> TRUE],
                delays |-> <<>>]

\* _backoff_delay(attempt, pol) for the next attempt
BackoffCall ==
    /\ fn # <<>> /\ Len(fn.delays) < MaxBackoffCalls
    /\ \E d \in _backoff_delay(Len(fn.delays) + 1, fn.pol) :
          fn' = [fn EXCEPT !.delays = Append(@, d)]
    /\ UNCHANGED <<storeVars, runVars, sopVars, bucketVars, windowVars, reqVars, engVars>>

NextBackoff == BackoffCall

SpecBackoff == InitBackoff /\ [][NextBackoff]_vars

\* C12: without full jitter the delay of attempt k is min(cap, base * 2^(k-1)),
\* it never decreases from one attempt to the next and stays at the cap once it
\* has reached it; with full jitter it lies between 0 and that value.
C12_BackoffMonotone ==
    \A k \in DOMAIN fn.delays :
        LET full == Min(fn.pol.cap_delay, fn.pol.base_delay * 2^(k - 1))
        IN  IF fn.pol.jitter = "full"
            THEN 0 <= fn.delays[k] /\ fn.delays[k] <= full
            ELSE /\ fn.delays[k] = full
                 /\ k > 1 => fn.delays[k] >= fn.delays[k - 1]
                 /\ (k > 1 /\ fn.delays[k - 1] = fn.pol.cap_delay)
                       => fn.delays[k] = fn.pol.cap_delay

\* C12 witness: base 1 doubles up to the cap and stays there
C12_Witness ==
    /\ fn.pol.jitter = "none" /\ fn.pol.base_delay = 1 /\ fn.pol.cap_delay = CapDelay
    /\ Len(fn.delays) = MaxBackoffCalls
    /\ fn.delays[1] < fn.delays[2]
    /\ fn.delays[MaxBackoffCalls - 1] = CapDelay /\ fn.delays[MaxBackoffCalls] = CapDelay

(***************************************************************************)
(* block_detect.classify_block called on every response of a bounded set   *)
(***************************************************************************)
InitClassify ==
    /\ durable = EmptyDb /\ conn = EmptyDb /\ wall = 0 /\ uuids = 0
    /\ IdleRun /\ IdleSops /\ IdleBucket /\ IdleWindow /\ IdleReq /\ IdleEng
    /\ \E resp \in ClassifyResponses : fn = [resp |-> resp, called |-> FALSE, info |-> <<>>]

ClassifyCall ==
    /\ fn # <<>> /\ ~fn.called
    /\ fn' = [fn EXCEPT !.called = TRUE, !.info = classify_block(fn.resp)]
    /\ UNCHANGED <<storeVars, runVars, sopVars, bucketVars, windowVars, reqVars, engVars>>

NextClassify == ClassifyCall

SpecClassify == InitClassify /\ [][NextClassify]_vars

\* C17: the hint of a classified response is the first that matches in the
\* order cloudflare, js_challenge, captcha, rate_limited, auth_required,
\* access_denied.
C17_HintPrecedence ==
    (fn.called /\ fn.info # <<>>) =>
        fn.info[1].hint =
            (IF fn.resp.cf_ray \/ "__cf_bm" \in fn.resp.text THEN "cloudflare"
             ELSE IF "just a moment" \in fn.resp.text THEN "js_challenge"
             ELSE IF "captcha" \in fn.resp.text THEN "captcha"
             ELSE IF fn.resp.status_code = 429 \/ "too many requests" \in fn.resp.text
                  THEN "rate_limited"
             ELSE IF fn.resp.status_code = 401 \/ "log in" \in fn.resp.text THEN "auth_required"
             ELSE IF fn.resp.status_code = 403 \/ "forbidden" \in fn.resp.text THEN "access_denied"
             ELSE "blocked")

\* C18: a block event is returned only for a response of status 401, 403, 429
\* or 503, or of status 200 with a challenge marker in its headers or body.
C18_NeverGuesses ==
    (fn.called /\ fn.info # <<>>) =>
        \/ fn.resp.status_code \in {401, 403, 429, 503}
        \/ /\ fn.resp.status_code = 200
           /\ \/ fn.resp.cf_ray
              \/ fn.resp.text \cap {"__cf_bm", "just a moment", "captcha"} # {}


(***************************************************************************)
(* SpecLimiters: threads calling HttpEngine._get_limiter on one engine.    *)
(* The method takes no lock: the membership test, the factory call, the    *)
(* store into the dict and the final read are separate steps of a thread.  *)
(***************************************************************************)
Threads == {1, 2}
Domains == {"a.example", "b.example"}
MaxLimiterCalls == 2      \* request() calls one thread makes

NoLimiter == 0

InitLimiters ==
    /\ durable = EmptyDb /\ conn = EmptyDb /\ wall = 0 /\ uuids = 0
    /\ IdleRun /\ IdleSops /\ IdleBucket /\ IdleWindow /\ IdleReq /\ IdleFn
    /\ mdw = <<>> /\ cache = <<>>
    /\ lims = [dict    |-> [d \in Domains |-> NoLimiter],      \* self._limiters
               made    |-> [d \in Domains |-> 0],              \* factory calls per domain
               th      |-> [t \in Threads |-> [pc |-> "idle", domain |-> "a.example",
                                               fresh |-> NoLimiter, calls |-> 0]],
               got     |-> <<>>]                               \* history: limiters returned

OtherThanLims == <<storeVars, runVars, sopVars, bucketVars, windowVars, reqVars, fnVars, mdw, cache>>

\* http_engine 637-638: request() resolves the domain and calls _get_limiter
LimCall(t) ==
    /\ lims # <<>> /\ lims.th[t].pc = "idle" /\ lims.th[t].calls < MaxLimiterCalls
    /\ \E d \in Domains :
          lims' = [lims EXCEPT !.th[t].pc = "test", !.th[t].domain = d, !.th[t].calls = @ + 1]
    /\ UNCHANGED OtherThanLims

\* line 616: if domain not in self._limiters
LimTest(t) ==
    /\ lims # <<>> /\ lims.th[t].pc = "test"
    /\ lims' = [lims EXCEPT !.th[t].pc = IF lims.dict[lims.th[t].domain] = NoLimiter
                                         THEN "factory" ELSE "read"]
    /\ UNCHANGED OtherThanLims

\* line 617, right-hand side: self._limiter_factory(domain) builds a new limiter
LimFactory(t) ==
    /\ lims # <<>> /\ lims.th[t].pc = "factory"
    /\ LET d == lims.th[t].domain
       IN  lims' = [lims EXCEPT !.made[d] = @ + 1, !.th[t].fresh = lims.made[d] + 1,
                                !.th[t].pc = "store"]
    /\ UNCHANGED OtherThanLims

\* line 617, assignment: self._limiters[domain] = ...
LimStore(t) ==
    /\ lims # <<>> /\ lims.th[t].pc = "store"
    /\ lims' = [lims EXCEPT !.dict[lims.th[t].domain] = lims.th[t].fresh, !.th[t].pc = "read"]
    /\ UNCHANGED OtherThanLims

\* line 618: return self._limiters[domain]
LimRead(t) ==
    /\ lims # <<>> /\ lims.th[t].pc = "read"
    /\ LET d == lims.th[t].domain
       IN  lims' = [lims EXCEPT !.got = Append(@, [thread |-> t, domain |-> d,
                                                   limiter |-> lims.dict[d]]),
                                !.th[t].pc = "idle"]
    /\ UNCHANGED OtherThanLims

NextLimiters ==
    \E t \in Threads : LimCall(t) \/ LimTest(t) \/ LimFactory(t) \/ LimStore(t) \/ LimRead(t)

SpecLimiters == InitLimiters /\ [][NextLimiters]_vars

\* C26: the limiter factory is invoked at most once per domain, and all calls
\* for one domain obtain the same limiter instance.
C26_OneLimiterPerDomain ==
    /\ \A d \in Domains : lims.made[d] <= 1
    /\ \A i, j \in DOMAIN lims.got :
          lims.got[i].domain = lims.got[j].domain => lims.got[i].limiter = lims.got[j].limiter

(***************************************************************************)
(* SpecMinDelay: threads calling MinDelayWrapper.acquire on one wrapper.   *)
(* Time is in ticks.  A thread reads inner.acquire() and the clock, then   *)
(* takes the lock and runs the locked block as one step.                   *)
(***************************************************************************)
MaxClock     == 3      \* the clock runs from 0 to MaxClock
MaxInnerWait == 1      \* inner.acquire() returns 0..MaxInnerWait
MaxDelayCalls == 2     \* acquire() calls of one behaviour
MinDelays == {0, 2}    \* values of min_delay
Jitters   == {0, 1}    \* values of jitter

\* a wrapper that does not add min_delay to the next-allowed timestamp
MinDelayWrapper_acquire_no_spacing(w, inner_wait, now, draw) ==
    LET wait_min == IF w.next_allowed_ts > now THEN w.next_allowed_ts - now ELSE 0
        wait     == Max(inner_wait, wait_min) + (IF w.jitter > 0 THEN draw ELSE 0)
    IN  [wait |-> Max(0, wait), next_allowed_ts |-> now + wait]

\* lines 211-221: the locked block; draw is the value of random.uniform(0, jitter)
MinDelayWrapper_acquire(w, inner_wait, now, draw) ==
    LET wait_min == IF w.next_allowed_ts > now THEN w.next_allowed_ts - now ELSE 0
        wait     == Max(inner_wait, wait_min) + (IF w.jitter > 0 THEN draw ELSE 0)
    IN  [wait |-> Max(0, wait), next_allowed_ts |-> now + wait + Max(0, w.min_delay)]

InitMinDelay ==
    /\ durable = EmptyDb /\ conn = EmptyDb /\ wall = 0 /\ uuids = 0
    /\ IdleRun /\ IdleSops /\ IdleBucket /\ IdleWindow /\ IdleReq /\ IdleFn
    /\ lims = <<>> /\ cache = <<>>
    /\ \E md \in MinDelays, j \in Jitters :
          mdw = [min_delay |-> md, jitter |-> j, next_allowed_ts |-> 0,
                 clock |-> 0,
                 th |-> [t \in Threads |-> [pc |-> "idle", inner_wait |-> 0, now |-> 0]],
                 admitted |-> <<>>]      \* history: the calls in the order of the lock

OtherThanMdw == <<storeVars, runVars, sopVars, bucketVars, windowVars, reqVars, fnVars, lims, cache>>

MdTick ==
    /\ mdw # <<>> /\ mdw.clock < MaxClock
    /\ mdw' = [mdw EXCEPT !.clock = @ + 1]
    /\ UNCHANGED OtherThanMdw

\* lines 209-210: inner.acquire() and time.monotonic(), before the lock
MdEnter(t) ==
    /\ mdw # <<>> /\ mdw.th[t].pc = "idle"
    /\ Len(mdw.admitted) + Cardinality({u \in Threads : mdw.th[u].pc = "lock"}) < MaxDelayCalls
    /\ \E iw \in 0..MaxInnerWait :
          mdw' = [mdw EXCEPT !.th[t] = [pc |-> "lock", inner_wait |-> iw, now |-> mdw.clock]]
    /\ UNCHANGED OtherThanMdw

\* lines 211-222: the block under self._lock, and the return
MdLocked(t) ==
    /\ mdw # <<>> /\ mdw.th[t].pc = "lock"
    /\ \E draw \in 0..mdw.jitter :
          LET me == mdw.th[t]
              r  == MinDelayWrapper_acquire(mdw, me.inner_wait, me.now, draw)
          IN  mdw' = [mdw EXCEPT !.next_allowed_ts = r.next_allowed_ts,
                                 !.th[t].pc = "idle",
                                 !.admitted = Append(@, [thread |-> t, now |-> me.now,
                                                         inner_wait |-> me.inner_wait,
                                                         until |-> Max(0, mdw.next_allowed_ts - me.now),
                                                         wait |-> r.wait])]
    /\ UNCHANGED OtherThanMdw

NextMinDelay == MdTick \/ \E t \in Threads : MdEnter(t) \/ MdLocked(t)

SpecMinDelay == InitMinDelay /\ [][NextMinDelay]_vars

\* the instant a call is admitted: its call time plus the wait it was given
AdmittedAt(a) == a.now + a.wait

\* C27: with jitter 0 the wait is max(inner wait, time until next-allowed); with
\* jitter j it exceeds that by at most j; each admission is at least min_delay
\* after the one before it, whichever threads made the calls.
C27_MinDelaySpacing ==
    /\ \A k \in DOMAIN mdw.admitted :
          LET a == mdw.admitted[k]
          IN  /\ a.wait >= Max(a.inner_wait, a.until)
              /\ a.wait <= Max(a.inner_wait, a.until) + mdw.jitter
    /\ \A k \in DOMAIN mdw.admitted :
          k > 1 => AdmittedAt(mdw.admitted[k]) >= AdmittedAt(mdw.admitted[k - 1]) + mdw.min_delay

\* C27 witness: with jitter 0, a thread that read the clock before another one
\* took the lock after it and was made to wait for the next-allowed timestamp
C27_Witness ==
    /\ mdw # <<>> /\ mdw.jitter = 0 /\ mdw.min_delay > 0 /\ Len(mdw.admitted) >= 2
    /\ LET a == mdw.admitted[1]
           b == mdw.admitted[2]
       IN  /\ a.thread # b.thread /\ b.now < a.now
           /\ b.until > b.inner_wait /\ b.wait = b.until
           /\ AdmittedAt(b) = AdmittedAt(a) + mdw.min_delay

(***************************************************************************)
(* SpecReplay: request() calls in replay mode against one cache directory. *)
(* A call is the fields _cache_key reads plus one header it does not read. *)
(***************************************************************************)
MaxReplayCalls == 3

ReplayRequests ==
    [method : {"GET"}, url : {1, 2}, params : {0}, body : {0},
     accept : {"json", "html"}, referer : {0}, origin : {0},
     user_agent : {1, 2}, mode : {"json"}]

\* a key that takes every header of the request
_cache_key_all_headers(q) ==
    <<q.method, q.url, q.params, q.body, q.accept, q.referer, q.origin, q.mode, q.user_agent>>

\* lines 525-555: the SHA-1 of the canonical JSON of these fields, taken as the
\* fields themselves
_cache_key(q) ==
    <<q.method, q.url, q.params, q.body, q.accept, q.referer, q.origin, q.mode, 0>>

\* lines 564-590: <<>> is None
_cache_load(dir, key) ==
    IF key \in DOMAIN dir
    THEN <<[status_code |-> dir[key].status_code, headers |-> dir[key].headers,
            body |-> dir[key].body]>>
    ELSE <<>>

\* lines 661-677 with cache_dir set and replay True
replay_request(dir, q) ==
    LET cached == _cache_load(dir, _cache_key(q))
    IN  IF cached # <<>> THEN [resp |-> cached, err |-> NoErr]
        ELSE [resp |-> <<>>, err |-> <<"cache_miss", 0>>]

\* the keys of the artifacts a recording run may have left
RecordedKeys ==
    {_cache_key([method |-> "GET", url |-> u, params |-> 0, body |-> 0, accept |-> "json",
                 referer |-> 0, origin |-> 0, user_agent |-> ua, mode |-> "json"]) :
        u \in {1, 2}, ua \in {1, 2}}

InitReplay ==
    /\ durable = EmptyDb /\ conn = EmptyDb /\ wall = 0 /\ uuids = 0
    /\ IdleRun /\ IdleSops /\ IdleBucket /\ IdleWindow /\ IdleReq /\ IdleFn
    /\ mdw = <<>> /\ lims = <<>>
    /\ \E keys \in SUBSET RecordedKeys :
       \E dir \in [keys -> [status_code : {200}, headers : {0}, body : {1, 2}]] :
          cache = [dir |-> dir, calls |-> <<>>]

\* one request() call of the replaying engine
ReplayCall ==
    /\ cache # <<>> /\ Len(cache.calls) < MaxReplayCalls
    /\ \E q \in ReplayRequests :
          cache' = [cache EXCEPT !.calls = Append(@, [req |-> q,
                                                      result |-> replay_request(cache.dir, q)])]
    /\ UNCHANGED <<storeVars, runVars, sopVars, bucketVars, windowVars, reqVars, fnVars, mdw, lims>>

NextReplay == ReplayCall

SpecReplay == InitReplay /\ [][NextReplay]_vars

\* the fields the claim names: everything but the other headers
SameShape(p, q) ==
    /\ p.method = q.method /\ p.url = q.url /\ p.params = q.params /\ p.body = q.body
    /\ p.accept = q.accept /\ p.referer = q.referer /\ p.origin = q.origin /\ p.mode = q.mode

\* C29: two replayed calls that agree on method, url, params, body, Accept,
\* Referer, Origin and mode get the same stored artifact or both cache_miss,
\* whatever their other headers and whatever was called in between.
C29_ReplayDeterministic ==
    \A i, j \in DOMAIN cache.calls :
        SameShape(cache.calls[i].req, cache.calls[j].req)
            => cache.calls[i].result = cache.calls[j].result

\* C29 witness: the same request with two different User-Agent headers, another
\* call in between, both served the stored artifact
C29_Witness ==
    /\ cache # <<>> /\ Len(cache.calls) = 3
    /\ LET a == cache.calls[1]
           b == cache.calls[2]
           c == cache.calls[3]
       IN  /\ SameShape(a.req, c.req) /\ a.req.user_agent # c.req.user_agent
           /\ ~SameShape(a.req, b.req) /\ b.result.resp = <<>>
           /\ a.result.resp # <<>> /\ a.result = c.result

(***************************************************************************)
(* keying.extract_item_id and keying.make_item_key on records with their   *)
(* keys in insertion order.  A record is a sequence of <<key, value>>      *)
(* pairs with distinct keys; id_path and id_keys name top-level keys.      *)
(* sha1 is taken to be collision-free: the hash is the hashed text.        *)
(***************************************************************************)
KeyNames == {"id", "t", "uid"}
KeyVals  == {PyNone, EmptyStr, PyInt(1), PyStr(2)}

\* the order of the keys in a sort_keys=True dump
KeyRank(k) == CASE k = "id" -> 1 [] k = "t" -> 2 [] OTHER -> 3

KeyOrders ==
    {ks \in UNION {[1..n -> KeyNames] : n \in 0..Cardinality(KeyNames)} :
        \A i, j \in DOMAIN ks : ks[i] = ks[j] => i = j}

KeyRecords ==
    UNION {{[i \in DOMAIN ks |-> <<ks[i], vs[i]>>] : vs \in [DOMAIN ks -> KeyVals]} :
           ks \in KeyOrders}

\* the same dict with its keys inserted in another order
Reorderings(item) ==
    {[i \in DOMAIN item |-> item[p[i]]] :
        p \in {q \in [DOMAIN item -> DOMAIN item] : \A i, j \in DOMAIN item : q[i] = q[j] => i = j}}

ExtractSpecs ==
    {[id_path |-> p, id_keys |-> ks] :
        p \in {<<>>, <<"uid">>}, ks \in {<<>>, <<"id">>, <<"uid", "id">>}}

\* item.get(k) and get_by_path(item, k) for a one-segment path
item_get(item, k) ==
    IF \E i \in DOMAIN item : item[i][1] = k
    THEN item[CHOOSE i \in DOMAIN item : item[i][1] = k][2]
    ELSE PyNone

\* val is not None and val != ""
HasValue(v) == v # PyNone /\ v # EmptyStr

\* str(val)
str(v) == PyStr(v[2])

\* keying.py 31-38: the for loop over spec.id_keys, from its i-th key on
RECURSIVE id_keys_loop(_, _, _, _)
id_keys_loop(item, keys, i, val) ==
    IF i > Len(keys) THEN val
    ELSE LET v == item_get(item, keys[i])
         IN  IF HasValue(v) THEN v ELSE id_keys_loop(item, keys, i + 1, v)

\* keying.py 19-42
keying_extract_item_id(item, spec) ==
    LET v0  == IF spec.id_path # <<>> THEN item_get(item, spec.id_path[1]) ELSE PyNone
        val == IF HasValue(v0) THEN v0 ELSE id_keys_loop(item, spec.id_keys, 1, v0)
    IN  IF HasValue(val) THEN str(val) ELSE PyNone

\* a dump that keeps the insertion order of the keys
canonical_json_insertion_order(item) ==
    [i \in DOMAIN item |-> <<item[i][1], JsonLiteral(item[i][2])>>]

\* json.dumps(item, sort_keys=True, separators=(",", ":"))
canonical_json(item) ==
    LET sorted == CHOOSE r \in Reorderings(item) :
                      \A i, j \in DOMAIN r : i < j => KeyRank(r[i][1]) < KeyRank(r[j][1])
    IN  [i \in DOMAIN sorted |-> <<sorted[i][1], JsonLiteral(sorted[i][2])>>]

\* keying.py 45-57
keying_make_item_key(item, spec) ==
    LET _id == keying_extract_item_id(item, spec)
    IN  IF _id # PyNone /\ _id # EmptyStr
        THEN <<"id:", _id[2]>>
        ELSE <<"sha1:", canonical_json(item)>>

InitKeying ==
    /\ durable = EmptyDb /\ conn = EmptyDb /\ wall = 0 /\ uuids = 0
    /\ IdleRun /\ IdleSops /\ IdleBucket /\ IdleWindow /\ IdleReq /\ IdleEng
    /\ \E spec \in ExtractSpecs, item \in KeyRecords :
          \E other \in Reorderings(item) :
             fn = [spec |-> spec, item |-> item, other |-> other, call |-> <<>>]

\* make_item_key on the record, on the same record with its keys in another
\* order, and on the first record again
KeyingCall ==
    /\ fn # <<>> /\ fn.call = <<>>
    /\ fn' = [fn EXCEPT !.call =
                 <<[item |-> fn.item, other |-> fn.other,
                    id |-> keying_extract_item_id(fn.item, fn.spec),
                    key |-> keying_make_item_key(fn.item, fn.spec),
                    key_other |-> keying_make_item_key(fn.other, fn.spec),
                    key_again |-> keying_make_item_key(fn.item, fn.spec)]>>]
    /\ UNCHANGED <<storeVars, runVars, sopVars, bucketVars, windowVars, reqVars, engVars>>

NextKeying == KeyingCall

SpecKeying == InitKeying /\ [][NextKeying]_vars

\* the id the record has: the value at id_path, else the value of the first
\* id_keys entry that has one; <<>> when there is none
IdOfRecord(item, spec) ==
    LET at(k) == item_get(item, k)
    IN  IF spec.id_path # <<>> /\ HasValue(at(spec.id_path[1]))
        THEN <<at(spec.id_path[1])>>
        ELSE IF \E i \in DOMAIN spec.id_keys : HasValue(at(spec.id_keys[i]))
        THEN <<at(spec.id_keys[CHOOSE i \in DOMAIN spec.id_keys :
                     /\ HasValue(at(spec.id_keys[i]))
                     /\ \A j \in 1..(i - 1) : ~HasValue(at(spec.id_keys[j]))])>>
        ELSE <<>>

\* C33: make_item_key is "id:" + id when the record has an id (at id_path, else
\* at the first id_keys entry with a value), otherwise "sha1:" + the hash of the
\* key-sorted JSON of the record; a record with its keys in another order gets
\* the same key, and a second call gives the same key.
C33_ItemKey ==
    (fn # <<>> /\ fn.call # <<>>) =>
        LET c  == fn.call[1]
            id == IdOfRecord(c.item, fn.spec)
        IN  /\ IF id # <<>>
               THEN c.key = <<"id:", id[1][2]>>
               ELSE /\ c.key[1] = "sha1:"
                    /\ {c.key[2][i] : i \in DOMAIN c.key[2]}
                          = {<<c.item[i][1], JsonLiteral(c.item[i][2])>> : i \in DOMAIN c.item}
                    /\ \A i, j \in DOMAIN c.key[2] :
                          i < j => KeyRank(c.key[2][i][1]) < KeyRank(c.key[2][j][1])
            /\ c.key_other = c.key
            /\ c.key_again = c.key

\* C33 witness: a record without an id and with three keys, hashed in two
\* different key orders
C33_Witness ==
    /\ fn # <<>> /\ fn.call # <<>>
    /\ fn.call[1].id = PyNone /\ Len(fn.call[1].item) = 3
    /\ fn.call[1].other # fn.call[1].item
    /\ fn.call[1].key[1] = "sha1:" /\ fn.call[1].key_other = fn.call[1].key

\* C33 witness, id case: id_path has no value and the second id_keys entry does
C33_WitnessId ==
    /\ fn # <<>> /\ fn.call # <<>>
    /\ fn.spec.id_keys = <<"uid", "id">>
    /\ item_get(fn.call[1].item, "uid") = EmptyStr
    /\ fn.call[1].key = <<"id:", 1>>

(***************************************************************************)
(* The blocked-event commands of tool_pipeline (blocked-resolve,           *)
(* blocked-list, blocked-resume) run on a database file that holds blocked *)
(* events.  The functions of storage_sqlite.py after line 297 are defined  *)
(* at module level: they are not attributes of DualSqliteStore.            *)
(***************************************************************************)
MaxBlockedCmds == 3
MaxBlocked == 2            \* rows in blocked_events

\* the attributes of class DualSqliteStore (storage_sqlite.py 38-294)
StoreMethods ==
    {"close", "_ensure_schema", "new_run_id", "_now_iso", "_insert_raw", "_upsert_unique",
     "put_both", "count_raw", "count_unique", "save_state", "load_state", "latest_run_id"}

\* the blocked_events tables a database file can hold: bids 1, 2, ... in insertion
\* order, each event open or resolved
BlockedTables ==
    UNION {{[i \in 1..n |->
               [bid |-> i, resolved_at |-> r[i], resolved_note |-> PyNone,
                profile |-> ProfileName, run_id |-> 1, batch_idx |-> 0,
                pagination_state |-> StateDict("offset", RestoreLocals(NoDict), 0)]] :
            r \in [1..n -> {PyNone, PyInt(1)}]} : n \in 0..MaxBlocked}

\* storage_sqlite 384-389, as a function of the store: UPDATE ... WHERE bid=?; commit
mark_blocked_resolved(store, bid, note, now) ==
    commit([store EXCEPT !.conn.blocked =
                [i \in DOMAIN @ |->
                    IF @[i].bid = bid
                    THEN [@[i] EXCEPT !.resolved_at = PyInt(now), !.resolved_note = note]
                    ELSE @[i]]])

\* storage_sqlite 398-421, as a function of the store: the bids listed
list_blocked_events(db, only_open) ==
    {db.blocked[i].bid : i \in {j \in DOMAIN db.blocked :
                                  only_open => db.blocked[j].resolved_at = PyNone}}

InitBlocked ==
    /\ \E t \in BlockedTables :
          /\ durable = [EmptyDb EXCEPT !.blocked = t]
          /\ conn = [EmptyDb EXCEPT !.blocked = t]
    /\ wall = 1 /\ uuids = 0
    /\ IdleRun /\ IdleBucket /\ IdleWindow /\ IdleReq /\ IdleEng
    /\ sops = [n |-> 0, resolved |-> {}]
    /\ lastSaved = <<>> /\ lastLoad = <<>> /\ prevSave = <<>>
    /\ fn = <<>>

\* tool_pipeline 1699-1703: db.mark_blocked_resolved(bid=..., note=...) inside the
\* with block; an attribute the store does not have raises AttributeError, the
\* with block closes the store and the command ends with the exception
CmdBlockedResolve ==
    /\ sops.n < MaxBlockedCmds
    /\ \E bid \in 1..MaxBlocked, note \in {PyNone, PyStr(1)} :
          IF "mark_blocked_resolved" \in StoreMethods
          THEN LET s == mark_blocked_resolved(Store, bid, note, wall + 1)
               IN  /\ durable' = s.durable /\ conn' = s.conn
                   /\ fn' = [cmd |-> "blocked-resolve", bid |-> bid, raised |-> "none",
                             listed |-> {}]
          ELSE /\ durable' = conn /\ conn' = conn
               /\ fn' = [cmd |-> "blocked-resolve", bid |-> bid, raised |-> "AttributeError",
                         listed |-> {}]
    /\ sops' = [n |-> sops.n + 1,
                resolved |-> sops.resolved \cup {b \in 1..MaxBlocked : fn'.bid = b}]
    /\ wall' = wall + 1
    /\ UNCHANGED <<uuids, lastSaved, lastLoad, prevSave>>
    /\ UNCHANGED <<runVars, bucketVars, windowVars, reqVars, engVars>>

\* tool_pipeline 1667-1672: db.list_blocked_events(..., only_open=(not args.all))
CmdBlockedList ==
    /\ sops.n < MaxBlockedCmds
    /\ \E all \in BOOLEAN :
          fn' = IF "list_blocked_events" \in StoreMethods
                THEN [cmd |-> "blocked-list", bid |-> 0, raised |-> "none",
                      listed |-> list_blocked_events(conn, ~all)]
                ELSE [cmd |-> "blocked-list", bid |-> 0, raised |-> "AttributeError",
                      listed |-> {}]
    /\ durable' = conn
    /\ sops' = [sops EXCEPT !.n = @ + 1]
    /\ UNCHANGED <<conn, wall, uuids, lastSaved, lastLoad, prevSave>>
    /\ UNCHANGED <<runVars, bucketVars, windowVars, reqVars, engVars>>

NextBlocked == CmdBlockedResolve \/ CmdBlockedList

SpecBlocked == InitBlocked /\ [][NextBlocked]_vars

MaxPatchVal == 2           \* scalar values 1..MaxPatchVal
MaxPatches == 2            \* patches applied to one profile

EmptyObj == [k \in {} |-> <<"v", 0>>]
Scalar(n) == <<"v", n>>
Obj(f) == <<"d", f>>
IsDict(v) == v[1] = "d"          \* isinstance(v, dict)
\* the outcome of a call: the object it returns, or ValueError raised
Returns(obj) == [raised |-> FALSE, out |-> obj]
Raised == [raised |-> TRUE, out |-> EmptyObj]

PatchPaths == {<<"a">>, <<"a", "b">>}
PatchScalars == {Scalar(n) : n \in 1..MaxPatchVal}

\* cur[key] = value
SetKey(obj, key, value) == [k \in DOMAIN obj \cup {key} |-> IF k = key THEN value ELSE obj[k]]

\* cur.pop(key, None)
PopKey(obj, key) == [k \in DOMAIN obj \ {key} |-> obj[k]]

\* the value at a dot-path, <<>> when there is none
RECURSIVE at_path(_, _)
at_path(obj, parts) ==
    IF parts[1] \notin DOMAIN obj THEN <<>>
    ELSE IF Len(parts) = 1 THEN <<obj[parts[1]]>>
    ELSE IF IsDict(obj[parts[1]]) THEN at_path(obj[parts[1]][2], Tail(parts))
    ELSE <<>>

\* site_patches 29-36 (and site_profile 463-478): dict + dict merges recursively,
\* anything else is replaced by the override
RECURSIVE _deep_merge(_, _)
_deep_merge(base, override) ==
    [k \in DOMAIN base \cup DOMAIN override |->
        IF k \notin DOMAIN override THEN base[k]
        ELSE IF k \in DOMAIN base /\ IsDict(base[k]) /\ IsDict(override[k])
             THEN Obj(_deep_merge(base[k][2], override[k][2]))
             ELSE override[k]]

\* site_patches 43-55: a segment that is not a dict is replaced by a new dict
RECURSIVE _set_by_path(_, _, _)
_set_by_path(obj, parts, value) ==
    IF Len(parts) = 1 THEN SetKey(obj, parts[1], value)
    ELSE LET nxt == IF parts[1] \in DOMAIN obj /\ IsDict(obj[parts[1]])
                    THEN obj[parts[1]][2] ELSE EmptyObj
         IN  SetKey(obj, parts[1], Obj(_set_by_path(nxt, Tail(parts), value)))

\* site_patches 58-69 (and site_profile 522-532): no-op when the path is missing
RECURSIVE _delete_by_path(_, _)
_delete_by_path(obj, parts) ==
    IF Len(parts) = 1 THEN PopKey(obj, parts[1])
    ELSE IF parts[1] \in DOMAIN obj /\ IsDict(obj[parts[1]])
         THEN SetKey(obj, parts[1], Obj(_delete_by_path(obj[parts[1]][2], Tail(parts))))
         ELSE obj

\* site_profile 503-519: a missing segment becomes a new dict, a segment that is
\* not a dict raises ValueError
RECURSIVE _dot_set(_, _, _)
_dot_set(obj, parts, value) ==
    IF Len(parts) = 1 THEN Returns(SetKey(obj, parts[1], value))
    ELSE IF parts[1] \in DOMAIN obj /\ ~IsDict(obj[parts[1]]) THEN Raised
    ELSE LET nxt  == IF parts[1] \in DOMAIN obj THEN obj[parts[1]][2] ELSE EmptyObj
             rest == _dot_set(nxt, Tail(parts), value)
         IN  IF rest.raised THEN Raised ELSE Returns(SetKey(obj, parts[1], Obj(rest.out)))

\* for op in patch.set_ops: _set_by_path(out, op.path, op.value)
RECURSIVE set_loop(_, _)
set_loop(out, ops) ==
    IF ops = <<>> THEN out
    ELSE set_loop(_set_by_path(out, ops[1].path, ops[1].value), Tail(ops))

\* for k, v in set_part.items(): _dot_set(out, k, v)
RECURSIVE dot_set_loop(_, _)
dot_set_loop(out, ops) ==
    IF ops = <<>> \/ out.raised THEN out
    ELSE dot_set_loop(_dot_set(out.out, ops[1].path, ops[1].value), Tail(ops))

\* for path in patch.delete_paths: _delete_by_path(out, path)
RECURSIVE delete_loop(_, _)
delete_loop(out, paths) ==
    IF paths = <<>> THEN out
    ELSE delete_loop(_delete_by_path(out, paths[1]), Tail(paths))

\* a patch that deletes before it sets
apply_site_patch_dict_delete_first(profile_dict, patch) ==
    set_loop(delete_loop(_deep_merge(profile_dict, patch.merge), patch.delete_paths),
             patch.set_ops)

\* site_patches 140-150: merge, then the set operations, then the deletes
apply_site_patch_dict(profile_dict, patch) ==
    delete_loop(set_loop(_deep_merge(profile_dict, patch.merge), patch.set_ops),
                patch.delete_paths)

\* site_profile 535-577: the same order on a patch document; enabled false
\* returns the profile as it is
apply_site_patch(profile_dict, patch_dict) ==
    IF ~patch_dict.enabled THEN Returns(profile_dict)
    ELSE LET done == dot_set_loop(Returns(_deep_merge(profile_dict, patch_dict.merge)),
                                  patch_dict.set_ops)
         IN  IF done.raised THEN Raised
             ELSE Returns(delete_loop(done.out, patch_dict.delete_paths))

\* site_patches 372-375 and 448: one turn of `for patch in patches`
patches_loop_body(data, patch) ==
    IF ~patch.enabled THEN data ELSE apply_site_patch_dict(data, patch)

\* the patches of the check: at most one merge value, one set operation and one
\* delete, each at one of the PatchPaths
PatchMerges ==
    {EmptyObj} \cup {[k \in {"a"} |-> v] : v \in PatchScalars}
               \cup {[k \in {"a"} |-> Obj([j \in {"b"} |-> v])] : v \in PatchScalars}

SitePatches ==
    [enabled : BOOLEAN,
     merge : PatchMerges,
     set_ops : {<<>>} \cup {<<[path |-> p, value |-> v]>> : p \in PatchPaths, v \in PatchScalars},
     delete_paths : {<<>>} \cup {<<p>> : p \in PatchPaths}]

PatchProfiles ==
    {EmptyObj, [k \in {"a"} |-> Scalar(1)], [k \in {"a"} |-> Obj([j \in {"b"} |-> Scalar(1)])]}

InitPatch ==
    /\ \E impl \in {"site_patches", "site_profile"}, d \in PatchProfiles :
          fn = [impl |-> impl, n |-> 0, before |-> d, after |-> Returns(d), patch |-> <<>>,
                earlier |-> <<>>]
    /\ durable = EmptyDb /\ conn = EmptyDb /\ wall = 0 /\ uuids = 0
    /\ IdleRun /\ IdleSops /\ IdleBucket /\ IdleWindow /\ IdleReq /\ IdleEng

\* the next patch of the list is applied to the result of the ones before it;
\* `earlier` keeps the set operations of the last enabled patch before this one
ApplyNextPatch ==
    /\ fn.n < MaxPatches
    /\ ~fn.after.raised
    /\ \E patch \in SitePatches :
          fn' = [impl |-> fn.impl, n |-> fn.n + 1, before |-> fn.after.out,
                 after |-> IF fn.impl = "site_patches"
                           THEN Returns(patches_loop_body(fn.after.out, patch))
                           ELSE apply_site_patch(fn.after.out, patch),
                 patch |-> <<patch>>,
                 earlier |-> IF fn.patch # <<>> /\ fn.patch[1].enabled
                             THEN fn.patch[1].set_ops ELSE fn.earlier]
    /\ UNCHANGED <<storeVars, runVars, sopVars, bucketVars, windowVars, reqVars, engVars>>

NextPatch == ApplyNextPatch

SpecPatch == InitPatch /\ [][NextPatch]_vars

\* p is q or lies above or below q
Related(p, q) ==
    \/ Len(p) <= Len(q) /\ SubSeq(q, 1, Len(p)) = p
    \/ Len(q) <= Len(p) /\ SubSeq(p, 1, Len(q)) = q

Deletes(patch, p) == \E i \in DOMAIN patch.delete_paths : patch.delete_paths[i] = p
DeletesNear(patch, p) == \E i \in DOMAIN patch.delete_paths : Related(patch.delete_paths[i], p)
Sets(patch, p, v) == \E i \in DOMAIN patch.set_ops : patch.set_ops[i] = [path |-> p, value |-> v]
SetsNear(patch, p) == \E i \in DOMAIN patch.set_ops : Related(patch.set_ops[i].path, p)
MergesNear(patch, p) ==
    \E q \in PatchPaths : Related(q, p) /\ at_path(patch.merge, q) # <<>>

=============================================================================
